---------------------------- MODULE Spec2Model ----------------------------
(***************************************************************************)
(* Verification model of tex2docx (zxkjack123/latex2word): the LaTeX       *)
(* source transformation pipeline.  Text is modelled as sequences of      *)
(* characters or of lexical tokens; every operator follows the Python      *)
(* code of src/tex2docx.  Each group of claims has its own specification   *)
(* over its own variables; the variables of the other groups stay idle.    *)
(***************************************************************************)
EXTENDS Integers, Sequences, FiniteSets, TLC

VARIABLES
    \* TextProcessor.remove_comments (utils.py)
    content, clean_once, clean_twice, cstage,
    \* LatexParser._process_includes (parser.py)
    include_files, inc_root, inc_content, inc_passes, inc_pc,
    include_directories,
    \* ContentModifier reference rewriting (modifier.py)
    original_content, initial_content, modified_content, new_label, lstage,
    \* LatexToWordConverter.convert (tex2docx.py)
    figure_contents, table_contents, fix_table, debug, assets, path_tools,
    pc, temp_dir, temp_dir_files, created_figure_files, created_table_files,
    compile_started, output_texfile, output_docxfile, raised,
    conversion_failed, pandoc_runs, pandoc_outcome, docx_styled,
    \* graphics search paths (parser.py, subfile.py)
    gp_main, gp_included, gp_include_dir, gp_disk, gp_clean_content,
    gp_include_directories, gp_figures, graphicspath_entries, graphicspaths,
    asset_search_roots, float_search_roots, gp_missing, gp_stage,
    \* ContentModifier._normalize_table_rules (modifier.py)
    env, table_text, options, body, transformed, table_result, tstage,
    \* SubfileCompiler._compile_parallel (subfile.py)
    file_paths, unit_behaviour, max_workers, work_queue, running,
    future_result, collected, successful_count, failed_files, cp_pc,
    \* the bibliography set (config.py, parser.py)
    bib_disk, bib_hints, bib_search_dirs, bibfile, bibfile_explicit,
    bibliography_files, bib_configured, bib_index, bib_seen, bib_detected,
    bib_stage,
    \* the metadata file (config.py)
    caption_style, author_metadata, metadata_override_file, md_disk,
    md_returned, md_last_call,
    \* the convert command (cli.py)
    cli_caption_locale, cli_authors, cli_fix_table, cli_debug, locale_value,
    cli_exception, cli_converted, cli_stderr, cli_exit, cli_pc,
    \* sub-figure package detection (utils.py)
    fp_content, figure_package, fp_pc,
    \* unwrapping of \resizebox (modifier.py)
    rb_document, rb_gap, rb_content, rb_raised, rb_pc,
    \* legacy table labels (modifier.py)
    nl_original, nl_content, nl_pc,
    \* the compile batch and its raster files (subfile.py)
    rs_paths, rs_tool, rs_pc, rs_pick, rs_result, rs_dir, rs_collected,
    rs_successful_count, rs_failed_files, rs_stage, rs_run, rs_first,
    rs_logs,
    \* ContentModifier._replace_environments (modifier.py)
    re_clean_content, re_template, re_figure_contents, re_created_files,
    re_outcome, re_temp_dir_files, re_modified_content, re_warnings, re_pc,
    \* SubfileGenerator._generate_filename (subfile.py)
    nm_figure_contents, nm_table_contents, nm_fix_table,
    nm_created_figure_files, nm_created_table_files, nm_pc,
    \* the graphics path rewrite
    ug_modified_content, ug_pc

commentVars == <<content, clean_once, clean_twice, cstage>>
includeVars == <<include_files, inc_root, inc_content, inc_passes, inc_pc,
                 include_directories>>

labelVars == <<original_content, initial_content, modified_content,
               new_label, lstage>>

\* the document, the configuration and the environment of one conversion
convertInputs == <<figure_contents, table_contents, fix_table, debug, assets,
                   path_tools>>
\* the record of the assembly-tool invocation
pandocVars == <<pandoc_runs, pandoc_outcome, docx_styled>>
convertVars == <<convertInputs, pc, temp_dir, temp_dir_files,
                 created_figure_files, created_table_files, compile_started,
                 output_texfile, output_docxfile, raised, conversion_failed,
                 pandoc_runs, pandoc_outcome, docx_styled>>

\* the files and the disk of one graphics path resolution
graphicsInputs == <<gp_main, gp_included, gp_include_dir, gp_disk>>
graphicsVars == <<graphicsInputs, gp_clean_content, gp_include_directories,
                  gp_figures, graphicspath_entries, graphicspaths,
                  asset_search_roots, float_search_roots, gp_missing,
                  gp_stage>>

tableVars == <<env, table_text, options, body, transformed, table_result,
               tstage>>

compileVars == <<file_paths, unit_behaviour, max_workers, work_queue, running,
                 future_result, collected, successful_count, failed_files,
                 cp_pc>>

bibVars == <<bib_disk, bib_hints, bib_search_dirs, bibfile, bibfile_explicit,
             bibliography_files, bib_configured, bib_index, bib_seen,
             bib_detected, bib_stage>>

metadataVars == <<caption_style, author_metadata, metadata_override_file,
                  md_disk, md_returned, md_last_call>>

cliVars == <<cli_caption_locale, cli_authors, cli_fix_table, cli_debug,
             locale_value, cli_exception, cli_converted, cli_stderr,
             cli_exit, cli_pc>>

packageVars == <<fp_content, figure_package, fp_pc>>

rasterVars == <<rs_paths, rs_tool, rs_pc, rs_pick, rs_result, rs_dir,
                rs_collected, rs_successful_count, rs_failed_files,
                rs_stage, rs_run, rs_first, rs_logs>>

labelsVars == <<nl_original, nl_content, nl_pc>>

resizeboxVars == <<rb_document, rb_gap, rb_content, rb_raised, rb_pc>>

replaceVars == <<re_clean_content, re_template, re_figure_contents,
    re_created_files, re_outcome, re_temp_dir_files, re_modified_content, re_warnings, re_pc>>

namesVars == <<nm_figure_contents, nm_table_contents, nm_fix_table,
    nm_created_figure_files, nm_created_table_files, nm_pc>>

graphicspathVars == <<ug_modified_content, ug_pc>>

vars == <<commentVars, includeVars, labelVars, convertVars, graphicsVars,
          tableVars, compileVars, bibVars, metadataVars, cliVars,
          packageVars, resizeboxVars, labelsVars, rasterVars,
          replaceVars,
          namesVars,
          graphicspathVars>>

\* What the steps of one group leave alone: the variables of the others.
notComment == <<includeVars, labelVars, convertVars, graphicsVars,
    tableVars, compileVars,
    bibVars, metadataVars, cliVars, packageVars,
    resizeboxVars, labelsVars, rasterVars,
    replaceVars,
    namesVars,
    graphicspathVars>>
notInclude == <<commentVars, labelVars, convertVars, graphicsVars,
    tableVars, compileVars,
    bibVars, metadataVars, cliVars, packageVars,
    resizeboxVars, labelsVars, rasterVars,
    replaceVars,
    namesVars,
    graphicspathVars>>
notLabel == <<commentVars, includeVars, convertVars, graphicsVars,
    tableVars, compileVars,
    bibVars, metadataVars, cliVars, packageVars,
    resizeboxVars, labelsVars, rasterVars,
    replaceVars,
    namesVars,
    graphicspathVars>>
notConvert == <<commentVars, includeVars, labelVars, graphicsVars,
    tableVars, compileVars,
    bibVars, metadataVars, cliVars, packageVars,
    resizeboxVars, labelsVars, rasterVars,
    replaceVars,
    namesVars,
    graphicspathVars>>
notGraphics == <<commentVars, includeVars, labelVars, convertVars,
    tableVars, compileVars,
    bibVars, metadataVars, cliVars, packageVars,
    resizeboxVars, labelsVars, rasterVars,
    replaceVars,
    namesVars,
    graphicspathVars>>
notTable == <<commentVars, includeVars, labelVars, convertVars, graphicsVars,
    compileVars,
    bibVars, metadataVars, cliVars, packageVars,
    resizeboxVars, labelsVars, rasterVars,
    replaceVars,
    namesVars,
    graphicspathVars>>
notCompile == <<commentVars, includeVars, labelVars, convertVars,
    graphicsVars, tableVars,
    bibVars, metadataVars, cliVars, packageVars,
    resizeboxVars, labelsVars, rasterVars,
    replaceVars,
    namesVars,
    graphicspathVars>>
notBib == <<commentVars, includeVars, labelVars, convertVars, graphicsVars,
    tableVars, compileVars, metadataVars, cliVars, packageVars,
    resizeboxVars, labelsVars, rasterVars,
    replaceVars,
    namesVars,
    graphicspathVars>>
notMetadata == <<commentVars, includeVars, labelVars, convertVars,
    graphicsVars, tableVars, compileVars, bibVars, cliVars, packageVars,
    resizeboxVars, labelsVars, rasterVars,
    replaceVars,
    namesVars,
    graphicspathVars>>
notCli == <<commentVars, includeVars, labelVars, convertVars,
    graphicsVars, tableVars, compileVars, bibVars, metadataVars, packageVars,
    resizeboxVars, labelsVars, rasterVars,
    replaceVars,
    namesVars,
    graphicspathVars>>
notPackage == <<commentVars, includeVars, labelVars, convertVars,
    graphicsVars, tableVars, compileVars, bibVars, metadataVars, cliVars,
    resizeboxVars, labelsVars, rasterVars,
    replaceVars,
    namesVars,
    graphicspathVars>>
notResizebox == <<commentVars, includeVars, labelVars, convertVars,
    graphicsVars, tableVars, compileVars, bibVars, metadataVars, cliVars,
    packageVars, labelsVars, rasterVars,
    replaceVars,
    namesVars,
    graphicspathVars>>
notLabels == <<commentVars, includeVars, labelVars, convertVars,
    graphicsVars, tableVars, compileVars, bibVars, metadataVars, cliVars,
    packageVars, resizeboxVars, rasterVars,
    replaceVars,
    namesVars,
    graphicspathVars>>
notRaster == <<commentVars, includeVars, labelVars, convertVars,
    graphicsVars, tableVars, compileVars, bibVars, metadataVars, cliVars,
    packageVars, resizeboxVars, labelsVars,
    replaceVars,
    namesVars,
    graphicspathVars>>

notReplace == <<commentVars, includeVars, labelVars, convertVars,
    graphicsVars, tableVars, compileVars, bibVars,
    metadataVars, cliVars, packageVars, resizeboxVars,
    labelsVars, rasterVars,
    namesVars,
    graphicspathVars>>

notNames == <<commentVars, includeVars, labelVars, convertVars,
    graphicsVars, tableVars, compileVars, bibVars,
    metadataVars, cliVars, packageVars, resizeboxVars,
    labelsVars, rasterVars, replaceVars,
    graphicspathVars>>

notGraphicspath == <<commentVars, includeVars, labelVars, convertVars,
    graphicsVars, tableVars, compileVars, bibVars,
    metadataVars, cliVars, packageVars, resizeboxVars,
    labelsVars, rasterVars, replaceVars, namesVars>>

(***************************************************************************)
(* Generic helpers on sequences.                                           *)
(***************************************************************************)
\* All sequences over S of length at most n.
SeqsUpTo(S, n) == UNION {[1..k -> S] : k \in 0..n}

\* the set of elements of a sequence
Range(s) == {s[i] : i \in 1..Len(s)}

(***************************************************************************)
(* Include resolution: parser.py LatexParser._process_includes.  A text is *)
(* a sequence of tokens: an \include{name} directive, plain text, or the   *)
(* comment that replaces a directive whose file does not exist.  File      *)
(* names are 1..MaxFiles (files that exist beside the root document) and   *)
(* MissingFile (no such file).  include_files[f] is the text of file f as  *)
(* _read_include_file returns it.  File f names only files after f, so no  *)
(* include cycle exists.                                                   *)
(***************************************************************************)
\* Number of include files that exist.
MaxFiles == 2
\* Most include directives in one file.
MaxIncludesPerFile == 2

MissingFile == 0

IncludeTok(name) == [k |-> "include", name |-> name]
NotFoundTok(name) == [k |-> "notfound", name |-> name]

\* regex.findall(TexPatterns.INCLUDE, content): the names, in text order.
RECURSIVE INCLUDE(_)
INCLUDE(text) ==
    IF text = <<>> THEN <<>>
    ELSE (IF Head(text).k = "include" THEN <<Head(text).name>> ELSE <<>>)
         \o INCLUDE(Tail(text))

\* str.replace(old, new, 1): the first occurrence of token old becomes the
\* token sequence new.
RECURSIVE replace_first(_, _, _)
replace_first(text, old, new) ==
    IF text = <<>> THEN <<>>
    ELSE IF Head(text) = old THEN new \o Tail(text)
    ELSE <<Head(text)>> \o replace_first(Tail(text), old, new)

\* include_file_path.exists()
include_exists(name) == name # MissingFile

\* The directory of an include file: even names lie beside the root
\* document, odd names in a chapter directory.
include_parent(name) == IF name % 2 = 0 THEN "doc" ELSE "chapter"

\* _register_include_directory: append unless already tracked.
register_include_directory(dirs, d) ==
    IF d \in Range(dirs) THEN dirs ELSE Append(dirs, d)

\* The for loop of one pass over includes_found[i..]; st holds content,
\* made_replacement, processed_in_pass and include_directories.
RECURSIVE include_loop(_, _, _, _)
include_loop(files, found, i, st) ==
    IF i > Len(found) THEN st
    ELSE LET name == found[i]
         IN  IF name \in st.processed THEN include_loop(files, found, i + 1, st)
             ELSE IF include_exists(name)
             THEN include_loop(files, found, i + 1,
                    [content |-> replace_first(st.content, IncludeTok(name),
                                               files[name]),
                     made |-> TRUE,
                     processed |-> st.processed \cup {name},
                     dirs |-> register_include_directory(
                                  st.dirs, include_parent(name))])
             ELSE include_loop(files, found, i + 1,
                    [content |-> replace_first(st.content, IncludeTok(name),
                                               <<NotFoundTok(name)>>),
                     made |-> st.made,
                     processed |-> st.processed \cup {name},
                     dirs |-> st.dirs])

\* A pass that never sets made_replacement, so that the loop ends after it.
include_pass_unflagged(files, text, dirs) ==
    [include_loop(files, INCLUDE(text), 1,
                  [content |-> text, made |-> FALSE, processed |-> {},
                   dirs |-> dirs])
     EXCEPT !.made = FALSE]

\* One iteration of the while loop, entered with includes_found not empty.
include_pass(files, text, dirs) ==
    include_loop(files, INCLUDE(text), 1,
                 [content |-> text, made |-> FALSE, processed |-> {},
                  dirs |-> dirs])

\* The texts a file whose name is f may hold (f = 0: the root document).
FileTexts(f) ==
    SeqsUpTo({IncludeTok(g) : g \in ((f + 1)..MaxFiles) \cup {MissingFile}},
             MaxIncludesPerFile)

IncludeInit ==
    /\ include_files \in {fs \in [1..MaxFiles -> FileTexts(0)] :
                             \A f \in 1..MaxFiles : fs[f] \in FileTexts(f)}
    /\ inc_root \in FileTexts(0)
    /\ inc_content = inc_root
    /\ inc_passes = 0
    /\ inc_pc = "loop"
    /\ include_directories = <<>>

IncludeIdle ==
    /\ include_files = <<>>
    /\ inc_root = <<>>
    /\ inc_content = <<>>
    /\ inc_passes = 0
    /\ inc_pc = "idle"
    /\ include_directories = <<>>

\* while True: ... : one iteration; the loop ends when no directive is
\* found or when the pass replaced none by a file.
IncludePass ==
    /\ inc_pc = "loop"
    /\ IF INCLUDE(inc_content) = <<>>
       THEN /\ inc_pc' = "done"
            /\ UNCHANGED <<inc_content, inc_passes, include_directories>>
       ELSE LET r == include_pass(include_files, inc_content,
                                  include_directories)
            IN  /\ inc_content' = r.content
                /\ include_directories' = r.dirs
                /\ inc_passes' = IF r.made THEN inc_passes + 1 ELSE inc_passes
                /\ inc_pc' = IF r.made THEN "loop" ELSE "done"
    /\ UNCHANGED <<include_files, inc_root>>
    /\ UNCHANGED notInclude

IncludeNext == IncludePass

\* The names a text's include directives give.
Named(text) == Range(INCLUDE(text))

\* The existing files the root document names, directly or through files
\* it names (file f names only files after f, so MaxFiles rounds suffice).
RECURSIVE ReachedIn(_, _)
ReachedIn(S, n) ==
    IF n = 0 THEN S
    ELSE ReachedIn(S \cup UNION {Named(include_files[f]) \ {MissingFile} :
                                    f \in S}, n - 1)

IncludedFiles == ReachedIn(Named(inc_root) \ {MissingFile}, MaxFiles)

\* Every name given by the root document or by an included file exists.
AllIncludesExist ==
    /\ MissingFile \notin Named(inc_root)
    /\ \A f \in IncludedFiles : MissingFile \notin Named(include_files[f])

\* How many directives of a text name file f.
Occurrences(text, f) ==
    Cardinality({i \in 1..Len(text) : text[i] = IncludeTok(f)})

RECURSIVE SumOccurrences(_, _)
SumOccurrences(S, f) ==
    IF S = {} THEN 0
    ELSE LET g == CHOOSE x \in S : TRUE
         IN  Occurrences(include_files[g], f) + SumOccurrences(S \ {g}, f)

\* Each included file is named by exactly one directive.
EachIncludedOnce ==
    \A f \in IncludedFiles :
        Occurrences(inc_root, f) + SumOccurrences(IncludedFiles, f) = 1

\* C4 as stated: for a root document whose include directives transitively
\* name N existing files with no cycle, resolution ends after at most N
\* substitution passes and leaves no \include directive.
C4_IncludeClosureWithinNPasses ==
    (inc_pc \in {"loop", "done"} /\ AllIncludesExist)
        => /\ inc_passes <= Cardinality(IncludedFiles)
           /\ (inc_pc = "done" => INCLUDE(inc_content) = <<>>)

\* C4 amended: the same, for a root document each of whose N included
\* files is named by exactly one include directive.
C4_IncludeClosureEachOnce ==
    (inc_pc \in {"loop", "done"} /\ AllIncludesExist /\ EachIncludedOnce)
        => /\ inc_passes <= Cardinality(IncludedFiles)
           /\ (inc_pc = "done" => INCLUDE(inc_content) = <<>>)

\* C4 witness: a nested include (the root names a file that names another)
\* resolved in as many passes as there are files.
C4_Witness ==
    /\ inc_pc = "done"
    /\ AllIncludesExist
    /\ EachIncludedOnce
    /\ Cardinality(IncludedFiles) = MaxFiles
    /\ inc_passes = MaxFiles
    /\ INCLUDE(inc_content) = <<>>


\* C26: when include resolution has returned, the text holds no include
\* directive that names a missing file: every occurrence has been replaced
\* by the placeholder comment.
C26_MissingIncludesReplaced ==
    inc_pc = "done" => MissingFile \notin Named(inc_content)

(***************************************************************************)
(* Include resolution on documents whose files may name one another or     *)
(* themselves: the same loop of _process_includes, started on files with   *)
(* include cycles.  The passes are not counted here, so that a document    *)
(* the loop reproduces is the same state again, and a text grown beyond    *)
(* what any document without a cycle expands to is not expanded further.   *)
(***************************************************************************)
\* The longest text a document without a cycle expands to:
\* MaxIncludesPerFile ^ (MaxFiles + 1).
MaxIncludeTextLen == 8

PlainTok == [k |-> "text", name |-> MissingFile]

\* The texts of the root document and of the files: directives naming any
\* file, and plain text.
CycleTexts ==
    SeqsUpTo({IncludeTok(g) : g \in (1..MaxFiles) \cup {MissingFile}}
                 \cup {PlainTok},
             MaxIncludesPerFile)

IncludeCycleInit ==
    /\ include_files \in [1..MaxFiles -> CycleTexts]
    /\ inc_root \in CycleTexts
    /\ inc_content = inc_root
    /\ inc_passes = 0
    /\ inc_pc = "loop"
    /\ include_directories = <<>>

\* while True: ... : one iteration, as IncludePass
IncludeCyclePass ==
    /\ inc_pc = "loop"
    /\ Len(inc_content) <= MaxIncludeTextLen
    /\ IF INCLUDE(inc_content) = <<>>
       THEN /\ inc_pc' = "done"
            /\ UNCHANGED <<inc_content, include_directories>>
       ELSE LET r == include_pass(include_files, inc_content,
                                  include_directories)
            IN  /\ inc_content' = r.content
                /\ include_directories' = r.dirs
                /\ inc_pc' = IF r.made THEN "loop" ELSE "done"
    /\ UNCHANGED <<include_files, inc_root, inc_passes>>
    /\ UNCHANGED notInclude

IncludeCycleNext == IncludeCyclePass

\* the files file f names, directly or through files it names
ReachedFrom(f) ==
    ReachedIn(Named(include_files[f]) \ {MissingFile}, MaxFiles)

\* a file the root document includes includes itself, directly or
\* transitively
IncludeCycle ==
    \E f \in IncludedFiles : f \in ReachedFrom(f)

\* C25: when an included file directly or transitively includes itself,
\* the resolution loop still stops and returns a text.
C25_CyclicIncludesTerminate ==
    IncludeCycle => <>(inc_pc = "done")

(***************************************************************************)
(* Reference rewriting: modifier.py ContentModifier._replace_environments, *)
(* _update_references, _update_subfigure_references and                    *)
(* _update_main_reference, with the new label that                         *)
(* SubfileGenerator._generate_filename and _create_new_environment derive. *)
(* A label is a sequence of name pieces (<<"fig:", "x", "_a">> is          *)
(* fig:x_a).  A float is a token sequence of \includegraphics commands and *)
(* \label commands; the live document is a token sequence of \ref          *)
(* commands, letter suffixes, the float and its replacement.               *)
(***************************************************************************)
\* Most \includegraphics commands in the float.
MaxImages == 2
\* Most \ref commands in the document.
MaxRefs == 2

Labels == {<<"fig:", "x">>, <<"fig:", "x", "_a">>, <<"fig:", "x", "_b">>,
           <<"fig:", "multifig_", "x">>}

ImgTok == [k |-> "includegraphics", name |-> <<>>]
LabelTok(l) == [k |-> "label", name |-> l]
RefTok(l) == [k |-> "ref", name |-> l]
SuffixTok(c) == [k |-> "suffix", name |-> <<c>>]
FloatTok == [k |-> "float", name |-> <<>>]
EnvTok(l) == [k |-> "newenv", name |-> l]

\* regex.findall(TexPatterns.LABEL, text): the label names in text order.
RECURSIVE LABEL(_)
LABEL(text) ==
    IF text = <<>> THEN <<>>
    ELSE (IF Head(text).k = "label" THEN <<Head(text).name>> ELSE <<>>)
         \o LABEL(Tail(text))

\* regex.finditer(TexPatterns.INCLUDEGRAPHICS, text): the positions of the
\* matches, in text order.
INCLUDEGRAPHICS(text) ==
    LET P == {i \in 1..Len(text) : text[i].k = "includegraphics"}
        RECURSIVE sorted(_, _)
        sorted(S, from) ==
            IF S = {} THEN <<>>
            ELSE LET m == CHOOSE x \in S : \A y \in S : x <= y
                 IN  <<m>> \o sorted(S \ {m}, m + 1)
    IN  sorted(P, 1)

\* str.replace(old, new): every occurrence of token old becomes the token
\* sequence new.
RECURSIVE replace_all(_, _, _)
replace_all(text, old, new) ==
    IF text = <<>> THEN <<>>
    ELSE (IF Head(text) = old THEN new ELSE <<Head(text)>>)
         \o replace_all(Tail(text), old, new)

\* The prefixes _generate_filename strips from a label, and
\* TextProcessor.sanitize_filename on a name piece (":" becomes "_").
FilenamePrefixes == {"fig:", "fig-", "fig_", "tab:", "tab-", "tab_",
                     "tbl:", "tbl-", "tbl_"}
sanitize_piece(a) ==
    CASE a = "fig:" -> "fig_"
      [] a = "tab:" -> "tab_"
      [] a = "tbl:" -> "tbl_"
      [] OTHER -> a
sanitize_filename(name) == [i \in 1..Len(name) |-> sanitize_piece(name[i])]

\* _generate_filename for the first figure of a document: the stem of the
\* subfile's name, "multifig_" and the sanitized last label without its
\* prefix, or "multifig_multifig0" when the float has no label.
generate_filename(text) ==
    LET labels == LABEL(text)
        last == labels[Len(labels)]
        base_name == IF labels = <<>> THEN <<"multifig", "0">>
                     ELSE IF last # <<>> /\ Head(last) \in FilenamePrefixes
                     THEN Tail(last)
                     ELSE last
    IN  <<"multifig_">> \o sanitize_filename(base_name)

\* _create_new_environment: new_label = f"{label_prefix}:{safe_label}".
create_new_label(filename_stem) == <<"fig:">> \o sanitize_filename(filename_stem)

\* chr(ord('a') + i), i counted from 0.
Letters == <<"a", "b", "c", "d", "e", "f", "g", "h">>
subfig_char_next(i) == Letters[i + 2]
subfig_char(i) == Letters[i + 1]

\* The first label in text[from..to], <<>> when there is none
\* (regex.search(TexPatterns.LABEL, search_area)).
first_label(text, from, to) ==
    LET found == LABEL(SubSeq(text, from, to))
    IN  IF found = <<>> THEN <<>> ELSE <<found[1]>>

\* The for loop of _update_subfigure_references from image i (counted from
\* 1) on: doc is the live document.
RECURSIVE subfigure_loop(_, _, _, _, _)
subfigure_loop(text, label, imgs, i, doc) ==
    IF i > Len(imgs) THEN doc
    ELSE LET labels == LABEL(text)
             main_label == IF labels = <<>> THEN <<>>
                           ELSE <<labels[Len(labels)]>>
             start_pos == imgs[i] + 1
             end_pos == IF i + 1 <= Len(imgs) THEN imgs[i + 1] - 1
                        ELSE Len(text)
             label_match == first_label(text, start_pos, end_pos)
         IN  IF label_match = <<>> \/ label_match = main_label
             THEN subfigure_loop(text, label, imgs, i + 1, doc)
             ELSE subfigure_loop(text, label, imgs, i + 1,
                      replace_all(doc, RefTok(label_match[1]),
                                  <<RefTok(label), SuffixTok(subfig_char(i - 1))>>))

update_subfigure_references(text, label, doc) ==
    subfigure_loop(text, label, INCLUDEGRAPHICS(text), 1, doc)

update_main_reference(text, label, doc) ==
    LET labels == LABEL(text)
    IN  IF labels = <<>> THEN doc
        ELSE replace_all(doc, RefTok(labels[Len(labels)]), <<RefTok(label)>>)

\* A float: panels, each an \includegraphics with or without a label after
\* it, then the float's own label or none.
NoLabel == <<>>
RECURSIVE panels_text(_)
panels_text(ps) ==
    IF ps = <<>> THEN <<>>
    ELSE <<ImgTok>> \o (IF Head(ps) = NoLabel THEN <<>>
                        ELSE <<LabelTok(Head(ps))>>)
         \o panels_text(Tail(ps))
float_text(ps, main) ==
    panels_text(ps) \o (IF main = NoLabel THEN <<>> ELSE <<LabelTok(main)>>)

Floats == {float_text(ps, main) :
              ps \in SeqsUpTo(Labels \cup {NoLabel}, MaxImages),
              main \in Labels \cup {NoLabel}}

LabelInit ==
    /\ original_content \in Floats
    /\ initial_content \in {<<FloatTok>> \o refs :
                               refs \in SeqsUpTo({RefTok(l) : l \in Labels},
                                                 MaxRefs)}
    /\ modified_content = initial_content
    /\ new_label = <<>>
    /\ lstage = "clean"

LabelIdle ==
    /\ original_content = <<>>
    /\ initial_content = <<>>
    /\ modified_content = <<>>
    /\ new_label = <<>>
    /\ lstage = "idle"

\* _replace_environments, up to the call of _update_references: the float
\* is replaced by the new environment, whose label is the new label.
ReplaceEnvironment ==
    /\ lstage = "clean"
    /\ new_label' = create_new_label(generate_filename(original_content))
    /\ modified_content' =
           replace_first(modified_content, FloatTok, <<EnvTok(new_label')>>)
    /\ lstage' = "replaced"
    /\ UNCHANGED <<original_content, initial_content>>
    /\ UNCHANGED notLabel

\* _update_references: the sub-label pass.
UpdateSubfigureReferences ==
    /\ lstage = "replaced"
    /\ modified_content' =
           update_subfigure_references(original_content, new_label,
                                       modified_content)
    /\ lstage' = "sub"
    /\ UNCHANGED <<original_content, initial_content, new_label>>
    /\ UNCHANGED notLabel

\* _update_references: the main-label pass.
UpdateMainReference ==
    /\ lstage = "sub"
    /\ modified_content' =
           update_main_reference(original_content, new_label, modified_content)
    /\ lstage' = "main"
    /\ UNCHANGED <<original_content, initial_content, new_label>>
    /\ UNCHANGED notLabel

LabelNext ==
    ReplaceEnvironment \/ UpdateSubfigureReferences \/ UpdateMainReference

\* The float of the claim: a first image followed by sub-label l1, a second
\* image followed by sub-label l2, and the main label m last.
TwoPanelFloat(l1, l2, m) ==
    /\ original_content =
           <<ImgTok, LabelTok(l1), ImgTok, LabelTok(l2), LabelTok(m)>>
    /\ l1 # l2 /\ l1 # m /\ l2 # m

\* What the claim says the document becomes, token by token of the
\* document as read: \ref{l1} -> \ref{n}(a), \ref{l2} -> \ref{n}(b),
\* \ref{m} -> \ref{n}, the float -> its replacement.
RECURSIVE Rewritten(_, _, _, _, _)
Rewritten(doc, l1, l2, m, n) ==
    IF doc = <<>> THEN <<>>
    ELSE (CASE Head(doc) = RefTok(l1) -> <<RefTok(n), SuffixTok("a")>>
            [] Head(doc) = RefTok(l2) -> <<RefTok(n), SuffixTok("b")>>
            [] Head(doc) = RefTok(m) -> <<RefTok(n)>>
            [] Head(doc) = FloatTok -> <<EnvTok(n)>>
            [] OTHER -> <<Head(doc)>>)
         \o Rewritten(Tail(doc), l1, l2, m, n)

LabelRewriteDone(l1, l2, m) ==
    /\ modified_content = Rewritten(initial_content, l1, l2, m, new_label)
    /\ \A i \in 1..Len(modified_content) :
           modified_content[i] \notin {RefTok(l1), RefTok(l2), RefTok(m)}

MaxTextLen == 6

CharPercent == "%"
CharBackslash == "\\"
CharNewline == "\n"
CharOther == "a"
Chars == {CharPercent, CharBackslash, CharNewline, CharOther}

\* Index of the first newline at or after position i, 0 when there is none.
NextNewline(t, i) ==
    LET js == {j \in i..Len(t) : t[j] = CharNewline}
    IN  IF js = {} THEN 0 ELSE CHOOSE j \in js : \A k \in js : j <= k

\* TexPatterns.COMMENT matches at i: an unescaped % (negative lookbehind on
\* the character before it), then .* (no newline), then a newline.
COMMENT(t, i) ==
    /\ t[i] = CharPercent
    /\ (i = 1 \/ t[i - 1] # CharBackslash)
    /\ NextNewline(t, i) # 0

\* End of the match of COMMENT that starts at i.
COMMENT_end(t, i) == NextNewline(t, i)

\* The pattern [^\\]%.*\n, which consumes the character before the %
\* instead of looking behind it.
COMMENT_consuming(t, i) ==
    /\ i + 1 <= Len(t)
    /\ t[i] # CharBackslash
    /\ t[i + 1] = CharPercent
    /\ NextNewline(t, i + 1) # 0

\* regex.sub(pattern, "", t) from position i on: non-overlapping matches,
\* leftmost first, are dropped, everything else is copied.
RECURSIVE sub_comment(_, _)
sub_comment(t, i) ==
    IF i > Len(t) THEN <<>>
    ELSE IF COMMENT(t, i) THEN sub_comment(t, COMMENT_end(t, i) + 1)
    ELSE <<t[i]>> \o sub_comment(t, i + 1)

RECURSIVE sub_comment_consuming(_, _)
sub_comment_consuming(t, i) ==
    IF i > Len(t) THEN <<>>
    ELSE IF COMMENT_consuming(t, i)
         THEN sub_comment_consuming(t, NextNewline(t, i + 1) + 1)
    ELSE <<t[i]>> \o sub_comment_consuming(t, i + 1)

remove_comments_consuming(t) == sub_comment_consuming(t, 1)

remove_comments(t) == sub_comment(t, 1)

CommentInit ==
    /\ content \in SeqsUpTo(Chars, MaxTextLen)
    /\ clean_once = <<>>
    /\ clean_twice = <<>>
    /\ cstage = 0

CommentIdle ==
    /\ content = <<>>
    /\ clean_once = <<>>
    /\ clean_twice = <<>>
    /\ cstage = 0

\* parser.py read_and_preprocess: the first stripping of the file's text.
StripOnce ==
    /\ cstage = 0
    /\ clean_once' = remove_comments(content)
    /\ cstage' = 1
    /\ UNCHANGED <<content, clean_twice>>
    /\ UNCHANGED notComment

\* A second stripping, of the text already stripped.
StripTwice ==
    /\ cstage = 1
    /\ clean_twice' = remove_comments(clean_once)
    /\ cstage' = 2
    /\ UNCHANGED <<content, clean_once>>
    /\ UNCHANGED notComment

CommentNext == StripOnce \/ StripTwice


\* Position i of t holds an escaped percent sign: a % right after a backslash.
EscapedPercentAt(t, i) == i > 1 /\ t[i] = CharPercent /\ t[i - 1] = CharBackslash

\* C5: stripping comments twice gives the same text as stripping once, for
\* every input text.
C5_CommentStrippingIdempotent ==
    cstage = 2 => clean_twice = clean_once

\* C5 witness: a text in which a comment was removed, an escaped percent
\* sign was kept, and the second stripping has run.
C5_Witness ==
    /\ cstage = 2
    /\ Len(clean_once) < Len(content)
    /\ \E i \in 1..Len(clean_once) : EscapedPercentAt(clean_once, i)

\* Position i of t holds an unescaped percent sign.
UnescapedPercentAt(t, i) ==
    t[i] = CharPercent /\ (i = 1 \/ t[i - 1] # CharBackslash)

\* Position i of t lies in a comment: an unescaped percent sign stands at
\* or before it on the same line.
InComment(t, i) ==
    \E j \in 1..i :
        /\ UnescapedPercentAt(t, j)
        /\ \A k \in j..(i - 1) : t[k] # CharNewline

\* The escaped percent signs of t that lie outside every comment.
EscapedOutsideComments(t) ==
    {i \in 1..Len(t) : EscapedPercentAt(t, i) /\ ~InComment(t, i)}

\* C27: for every input the output of remove_comments holds no unescaped
\* percent sign (each is removed with the rest of its line, also on a last
\* line without a newline), and no escaped percent sign that lies outside
\* a comment is removed.
C27_CommentStrippingComplete ==
    cstage >= 1 =>
        /\ \A i \in 1..Len(clean_once) : ~UnescapedPercentAt(clean_once, i)
        /\ Cardinality(EscapedOutsideComments(content))
               <= Cardinality({i \in 1..Len(clean_once) :
                                  EscapedPercentAt(clean_once, i)})

(***************************************************************************)
(* The conversion workflow: tex2docx.py LatexToWordConverter.convert.  A   *)
(* float is modelled by the image path its \includegraphics names (or      *)
(* NoImage when it has none); assets is the set of image paths that        *)
(* resolve under some search root; path_tools is the set of external tools *)
(* found on the execution search path.  pc is the position of convert().   *)
(***************************************************************************)
\* Most floats of each class (figures, tables) in the document.
MaxFloats == 2

ImagePaths == {"a.png", "b.png"}
NoImage == "none"
Tools == {"xelatex", "pandoc", "pandoc-crossref"}

\* PatternMatcher.extract_includegraphics_paths(content)
extract_includegraphics_paths(float) ==
    IF float = NoImage THEN <<>> ELSE <<float>>

\* SubfileGenerator._asset_exists(image_path, search_roots)
asset_exists(image_path) == image_path \in assets

descriptors(content_list, context) ==
    [i \in 1..Len(content_list) |->
        [context |-> context, index |-> i, image_path |-> content_list[i]]]

validate_graphic_assets_unchecked(content_list, context) == <<>>

\* SubfileGenerator._validate_graphic_assets: the list `missing`, one
\* descriptor "{context} #{index}: {image_path}" per unresolved asset.
validate_graphic_assets(content_list, context) ==
    SelectSeq(descriptors(content_list, context),
              LAMBDA d : /\ extract_includegraphics_paths(d.image_path) # <<>>
                         /\ ~asset_exists(d.image_path))

\* SubfileGenerator._generate_subfiles: the names written for a class.
generate_subfiles(content_list, prefix) ==
    {<<prefix, i>> : i \in 1..Len(content_list)}

\* an exception leaves the try block of convert()
Raise(type, message) ==
    /\ pc' = "failed"
    /\ raised' = Append(raised, [type |-> type, message |-> message])
    /\ conversion_failed' = TRUE

ConvertInit ==
    /\ figure_contents \in SeqsUpTo(ImagePaths \cup {NoImage}, MaxFloats)
    /\ table_contents \in SeqsUpTo(ImagePaths \cup {NoImage}, MaxFloats)
    /\ fix_table \in BOOLEAN
    /\ debug \in BOOLEAN
    /\ assets \in SUBSET ImagePaths
    /\ path_tools \in SUBSET Tools
    /\ pc = "start"
    /\ temp_dir = "untouched"
    /\ temp_dir_files = {}
    /\ created_figure_files = {}
    /\ created_table_files = {}
    /\ compile_started = {}
    /\ output_texfile = FALSE
    /\ output_docxfile = FALSE
    /\ raised = <<>>
    /\ conversion_failed = FALSE
    /\ pandoc_runs = 0
    /\ pandoc_outcome = "not run"
    /\ docx_styled = FALSE

ConvertIdle ==
    /\ figure_contents = <<>>
    /\ table_contents = <<>>
    /\ fix_table = FALSE
    /\ debug = FALSE
    /\ assets = {}
    /\ path_tools = {}
    /\ pc = "idle"
    /\ temp_dir = "untouched"
    /\ temp_dir_files = {}
    /\ created_figure_files = {}
    /\ created_table_files = {}
    /\ compile_started = {}
    /\ output_texfile = FALSE
    /\ output_docxfile = FALSE
    /\ raised = <<>>
    /\ conversion_failed = FALSE
    /\ pandoc_runs = 0
    /\ pandoc_outcome = "not run"
    /\ docx_styled = FALSE

\* Step 1: parser.read_and_preprocess(); parser.analyze_structure()
ParseLatex ==
    /\ pc = "start"
    /\ \E readable \in BOOLEAN :
        IF readable
        THEN /\ pc' = "parsed"
             /\ UNCHANGED <<raised, conversion_failed>>
        ELSE Raise("ParseError", <<>>)
    /\ UNCHANGED <<temp_dir, temp_dir_files, created_figure_files,
                   created_table_files, compile_started, output_texfile,
                   output_docxfile>>
    /\ UNCHANGED <<convertInputs, pandocVars>>
    /\ UNCHANGED notConvert

\* Step 2: file_manager.prepare_temp_directory()
PrepareTempDirectory ==
    /\ pc = "parsed"
    /\ \E os_ok \in BOOLEAN :
        IF os_ok
        THEN /\ pc' = "prepared"
             /\ temp_dir' = "prepared"
             /\ temp_dir_files' = {}
             /\ UNCHANGED <<raised, conversion_failed>>
        ELSE /\ Raise("OSError", <<>>)
             /\ UNCHANGED <<temp_dir, temp_dir_files>>
    /\ UNCHANGED <<created_figure_files, created_table_files,
                   compile_started, output_texfile, output_docxfile>>
    /\ UNCHANGED <<convertInputs, pandocVars>>
    /\ UNCHANGED notConvert

\* Step 3a: subfile_gen.generate_figure_subfiles(parser.figure_contents)
GenerateFigureSubfiles ==
    /\ pc = "prepared"
    /\ LET missing == validate_graphic_assets(figure_contents, "figure")
           files == generate_subfiles(figure_contents, "multifig")
       IN  IF missing # <<>>
           THEN /\ Raise("FileNotFoundError", missing)
                /\ UNCHANGED <<created_figure_files, temp_dir_files>>
           ELSE /\ pc' = "figures_generated"
                /\ created_figure_files' = files
                /\ temp_dir_files' = temp_dir_files \cup files
                /\ UNCHANGED <<raised, conversion_failed>>
    /\ UNCHANGED <<temp_dir, created_table_files, compile_started,
                   output_texfile, output_docxfile>>
    /\ UNCHANGED <<convertInputs, pandocVars>>
    /\ UNCHANGED notConvert

\* Step 3b: if self.config.fix_table:
\*              subfile_gen.generate_table_subfiles(parser.table_contents)
GenerateTableSubfiles ==
    /\ pc = "figures_generated"
    /\ LET missing == validate_graphic_assets(table_contents, "table")
           files == generate_subfiles(table_contents, "tab")
       IN  IF fix_table /\ missing # <<>>
           THEN /\ Raise("FileNotFoundError", missing)
                /\ UNCHANGED <<created_table_files, temp_dir_files>>
           ELSE /\ pc' = "subfiles_generated"
                /\ created_table_files' = IF fix_table THEN files ELSE {}
                /\ temp_dir_files' =
                       temp_dir_files \cup (IF fix_table THEN files ELSE {})
                /\ UNCHANGED <<raised, conversion_failed>>
    /\ UNCHANGED <<temp_dir, created_figure_files, compile_started,
                   output_texfile, output_docxfile>>
    /\ UNCHANGED <<convertInputs, pandocVars>>
    /\ UNCHANGED notConvert

\* Step 3c: compiler.compile_all_subfiles(created_figure_files,
\* created_table_files).  Every subfile is handed to the typesetting tool;
\* a unit whose tool is missing, fails or times out yields no raster file.
CompileAllSubfiles ==
    /\ pc = "subfiles_generated"
    /\ LET all_files == created_figure_files \cup
                        (IF fix_table THEN created_table_files ELSE {})
       IN  /\ compile_started' = all_files
           /\ \E succeeded \in SUBSET all_files :
                /\ "xelatex" \notin path_tools => succeeded = {}
                /\ temp_dir_files' =
                       temp_dir_files \cup {<<"png", f>> : f \in succeeded}
    /\ pc' = "compiled"
    /\ UNCHANGED <<temp_dir, created_figure_files, created_table_files,
                   output_texfile, output_docxfile, raised,
                   conversion_failed>>
    /\ UNCHANGED <<convertInputs, pandocVars>>
    /\ UNCHANGED notConvert

\* Step 4: modifier.create_modified_content(...);
\*         modifier.write_modified_file()
CreateModifiedContent ==
    /\ pc = "compiled"
    /\ pc' = "modified"
    /\ output_texfile' = TRUE
    /\ UNCHANGED <<temp_dir, temp_dir_files, created_figure_files,
                   created_table_files, compile_started, output_docxfile,
                   raised, conversion_failed>>
    /\ UNCHANGED <<convertInputs, pandocVars>>
    /\ UNCHANGED notConvert

\* Step 5, converter.py PandocConverter._check_dependencies
CheckDependencies ==
    /\ pc = "modified"
    /\ IF "pandoc" \notin path_tools
       THEN Raise("DependencyError", <<"pandoc">>)
       ELSE IF "pandoc-crossref" \notin path_tools
       THEN Raise("DependencyError", <<"pandoc-crossref">>)
       ELSE /\ pc' = "dependencies_checked"
            /\ UNCHANGED <<raised, conversion_failed>>
    /\ UNCHANGED <<temp_dir, temp_dir_files, created_figure_files,
                   created_table_files, compile_started, output_texfile,
                   output_docxfile>>
    /\ UNCHANGED <<convertInputs, pandocVars>>
    /\ UNCHANGED notConvert

PandocOutcomes == {"ok", "timeout", "nonzero exit"}

\* a variant that takes an expired timeout for a finished run
run_pandoc_timeout_ignored(outcome) ==
    CASE outcome = "nonzero exit" -> <<"ConversionError", "failed">>
      [] OTHER -> <<>>

\* PandocConverter._run_pandoc: the exception raised for an outcome of
\* subprocess.run(command, check=True, timeout=PandocOptions.TIMEOUT), or
\* <<>> when it returns normally
run_pandoc(outcome) ==
    CASE outcome = "timeout" -> <<"ConversionError", "timed out">>
      [] outcome = "nonzero exit" -> <<"ConversionError", "failed">>
      [] OTHER -> <<>>

\* Step 5, converter.py PandocConverter.convert_to_docx after the
\* dependency check: _validate_files, _build_pandoc_command, _run_pandoc,
\* _apply_docx_table_styling
RunPandoc ==
    /\ pc = "dependencies_checked"
    /\ \E files_valid \in BOOLEAN, outcome \in PandocOutcomes :
        IF ~files_valid
        THEN /\ Raise("FileNotFoundError", <<>>)
             /\ UNCHANGED <<output_docxfile, pandocVars>>
        ELSE /\ pandoc_runs' = pandoc_runs + 1
             /\ pandoc_outcome' = outcome
             /\ IF run_pandoc(outcome) = <<>>
                THEN /\ pc' = "converted"
                     /\ output_docxfile' = (outcome = "ok")
                     /\ docx_styled' = TRUE
                     /\ UNCHANGED <<raised, conversion_failed>>
                ELSE /\ Raise(run_pandoc(outcome)[1],
                              <<run_pandoc(outcome)[2]>>)
                     /\ UNCHANGED <<output_docxfile, docx_styled>>
    /\ UNCHANGED <<temp_dir, temp_dir_files, created_figure_files,
                   created_table_files, compile_started, output_texfile>>
    /\ UNCHANGED convertInputs
    /\ UNCHANGED notConvert

\* a variant of the finally block that ignores conversion_failed
cleanup_wanted_after_failure(failed, debug_mode) == ~debug_mode

\* the finally block of convert(): cleanup_temp_files() runs unless the
\* conversion failed or file_manager.should_cleanup() (not debug) is false
cleanup_wanted(failed, debug_mode) == ~failed /\ ~debug_mode

Finally ==
    /\ pc \in {"failed", "converted"}
    /\ pc' = "returned"
    /\ IF cleanup_wanted(conversion_failed, debug)
       THEN /\ temp_dir' = "removed"
            /\ temp_dir_files' = {}
            /\ output_texfile' = FALSE
       ELSE UNCHANGED <<temp_dir, temp_dir_files, output_texfile>>
    /\ UNCHANGED <<created_figure_files, created_table_files,
                   compile_started, output_docxfile, raised,
                   conversion_failed>>
    /\ UNCHANGED <<convertInputs, pandocVars>>
    /\ UNCHANGED notConvert

ConvertNext ==
    \/ ParseLatex
    \/ PrepareTempDirectory
    \/ GenerateFigureSubfiles
    \/ GenerateTableSubfiles
    \/ CompileAllSubfiles
    \/ CreateModifiedContent
    \/ CheckDependencies
    \/ RunPandoc
    \/ Finally

(***************************************************************************)
(* Claims on the conversion workflow.                                      *)
(***************************************************************************)
\* the descriptors of the floats of one class whose asset does not resolve
MissingOf(content_list, context) ==
    {d \in Range(descriptors(content_list, context)) :
        d.image_path # NoImage /\ d.image_path \notin assets}

\* every missing asset of the floats that are to be isolated: the figures,
\* and the tables when table fixing is enabled
AllMissing ==
    MissingOf(figure_contents, "figure") \cup
    (IF fix_table THEN MissingOf(table_contents, "table") ELSE {})

\* the run got as far as asset validation and has ended
ValidationReached == pc = "returned" /\ temp_dir = "prepared"

\* C2: when floats (figures, and tables when table fixing is enabled)
\* reference assets that resolve nowhere, the conversion raises exactly one
\* missing-asset failure and its message enumerates every missing asset
\* with its originating float, none omitted.
C2_MissingAssetAggregation ==
    (ValidationReached /\ AllMissing # {}) =>
        /\ Len(raised) = 1
        /\ raised[1].type = "FileNotFoundError"
        /\ Range(raised[1].message) = AllMissing
        /\ Len(raised[1].message) = Cardinality(AllMissing)

\* C3: in every run in which some validated float references an asset that
\* cannot be resolved, no typesetting invocation is started, content
\* modification and assembly never run, and no output DOCX is produced.
C3_MissingAssetsFailFast ==
    AllMissing # {} =>
        /\ compile_started = {}
        /\ pc \notin {"compiled", "modified", "dependencies_checked",
                      "converted"}
        /\ ~output_texfile
        /\ ~output_docxfile

\* a run that ended on a missing table asset after the figure subfiles had
\* been written
C3_Witness ==
    /\ ValidationReached
    /\ AllMissing # {}
    /\ created_figure_files # {}
    /\ raised # <<>>
    /\ raised[1].type = "FileNotFoundError"
    /\ compile_started = {}

\* C23: no subfile of any float is written to the staging directory until
\* the assets of every float to be isolated (the figures, and the tables
\* when table fixing is enabled) have been validated: in a run with an
\* unresolved asset the staging directory never holds a generated subfile.
C23_ValidationPrecedesGeneration ==
    AllMissing # {} =>
        temp_dir_files \cap (generate_subfiles(figure_contents, "multifig")
                                \cup generate_subfiles(table_contents, "tab"))
            = {}

\* C10: every required external tool is checked before any pipeline work
\* begins: when one is absent, convert() fails with a dependency error
\* before the staging directory is prepared, before any subfile is written
\* and before any external compilation is started.
C10_DependencyPreflight ==
    (Tools \ path_tools # {}) =>
        /\ temp_dir = "untouched"
        /\ temp_dir_files = {}
        /\ compile_started = {}
        /\ pc = "returned" =>
              /\ raised # <<>>
              /\ raised[1].type = "DependencyError"

C14_AssemblyOutcomeClassification ==
    /\ pandoc_runs <= 1
    /\ pandoc_outcome \in {"timeout", "nonzero exit"} =>
        /\ pc \in {"failed", "returned"}
        /\ conversion_failed
        /\ Len(raised) = 1
        /\ raised[1].type = "ConversionError"
        /\ raised[1].message =
               IF pandoc_outcome = "timeout" THEN <<"timed out">>
               ELSE <<"failed">>
        /\ ~output_docxfile
        /\ ~docx_styled

\* a run whose assembly invocation timed out and that has returned
C14_Witness ==
    /\ pc = "returned"
    /\ pandoc_runs = 1
    /\ pandoc_outcome = "timeout"
    /\ raised # <<>>
    /\ raised[1].message = <<"timed out">>

(***************************************************************************)
(* Graphics search paths: parser.py LatexParser._determine_graphicspath    *)
(* and subfile.py SubfileGenerator._build_asset_search_roots /             *)
(* _validate_graphic_assets.  The main file and one included file are      *)
(* sequences of items: a \graphicspath declaration, a float with one       *)
(* \includegraphics (and possibly a \graphicspath inside its own text), or *)
(* the \include directive.  A directory is a pair <<base, entry>>: the     *)
(* entry resolved against a base directory; <<base, "">> is the base       *)
(* itself.  The origin field of a float records the file it was written    *)
(* in; no operator of the program reads it.                                *)
(***************************************************************************)
\* Most items in the main file.
MaxMainItems == 3
\* Most items in the included file.
MaxIncludedItems == 2

MainDir == "D0"
GraphicsPathTok(entries) == [k |-> "graphicspath", entries |-> entries]
GraphicsFloat(origin, local) ==
    [k |-> "float", origin |-> origin, local |-> local]
IncludeDirective == [k |-> "include"]

MainItems ==
    {GraphicsPathTok(<<"a/">>), GraphicsPathTok(<<"b/">>),
     GraphicsFloat("main", <<>>), GraphicsFloat("main", <<"b/">>),
     IncludeDirective}
IncludedItems ==
    {GraphicsPathTok(<<"a/">>), GraphicsPathTok(<<"b/">>),
     GraphicsFloat("included", <<>>)}

\* directories in which the referenced image file may lie
AssetDirs == {<<"D0", "a/">>, <<"D0", "b/">>, <<"D1", "b/">>}

\* LatexParser._process_includes on a main file with one include file
RECURSIVE inline_include(_, _)
inline_include(main, included) ==
    IF main = <<>> THEN <<>>
    ELSE IF Head(main).k = "include"
         THEN included \o inline_include(Tail(main), included)
         ELSE <<Head(main)>> \o inline_include(Tail(main), included)

\* regex.findall(TexPatterns.GRAPHICSPATH, content): every declaration of
\* the text, those inside floats included, in text order
RECURSIVE GRAPHICSPATH(_)
GRAPHICSPATH(text) ==
    IF text = <<>> THEN <<>>
    ELSE LET h == Head(text)
             here == IF h.k = "graphicspath" THEN <<h.entries>>
                     ELSE IF h.k = "float" /\ h.local # <<>>
                          THEN <<h.local>>
                          ELSE <<>>
         IN  here \o GRAPHICSPATH(Tail(text))

\* PatternMatcher.extract_graphicspaths: the entries of the last match
extract_graphicspaths(text) ==
    LET matches == GRAPHICSPATH(text)
    IN  IF matches = <<>> THEN <<>> ELSE matches[Len(matches)]

\* the seen-set loops: keep the first occurrence of every element
RECURSIVE unique(_)
unique(s) ==
    IF s = <<>> THEN <<>>
    ELSE LET rest == unique(SubSeq(s, 1, Len(s) - 1))
             last == s[Len(s)]
         IN  IF last \in Range(rest) THEN rest ELSE Append(rest, last)

\* for entry in entries: for base in bases: (base / entry).resolve()
RECURSIVE entries_times_bases(_, _)
entries_times_bases(entries, bases) ==
    IF entries = <<>> THEN <<>>
    ELSE [i \in 1..Len(bases) |-> <<bases[i], Head(entries)>>]
         \o entries_times_bases(Tail(entries), bases)

\* LatexParser._resolve_graphicspath_entries
resolve_graphicspath_entries(entries, bases) ==
    unique(entries_times_bases(entries, bases))

\* LatexParser._determine_graphicspath: self.graphicspaths
determine_graphicspath(text, include_dirs) ==
    LET entries == extract_graphicspaths(text)
        resolved == resolve_graphicspath_entries(entries,
                                                 <<MainDir>> \o include_dirs)
    IN  IF resolved = <<>> THEN <<<<MainDir, "">>>> ELSE resolved

\* SubfileGenerator._build_asset_search_roots
build_asset_search_roots(resolved, raw_entries, include_dirs) ==
    LET base_dirs == <<MainDir>> \o include_dirs
    IN  unique(resolved
               \o entries_times_bases(raw_entries, base_dirs)
               \o [i \in 1..Len(base_dirs) |-> <<base_dirs[i], "">>])

\* SubfileGenerator._resolve_local_graphicspaths
resolve_local_graphicspaths(float, include_dirs) ==
    unique(entries_times_bases(extract_graphicspaths(<<float>>),
                               <<MainDir>> \o include_dirs))

\* search_roots = [*local_roots, *self._asset_search_roots]
search_roots_of(float, roots, include_dirs) ==
    resolve_local_graphicspaths(float, include_dirs) \o roots

\* SubfileGenerator._asset_exists for the one image path of the model
gp_asset_exists(search_roots) ==
    \E i \in 1..Len(search_roots) : search_roots[i] \in gp_disk

GraphicsInit ==
    /\ gp_main \in SeqsUpTo(MainItems, MaxMainItems)
    /\ gp_included \in SeqsUpTo(IncludedItems, MaxIncludedItems)
    /\ gp_include_dir \in {"D0", "D1"}
    /\ gp_disk \in SUBSET AssetDirs
    /\ gp_clean_content = <<>>
    /\ gp_include_directories = <<>>
    /\ gp_figures = <<>>
    /\ graphicspath_entries = <<>>
    /\ graphicspaths = <<>>
    /\ asset_search_roots = <<>>
    /\ float_search_roots = <<>>
    /\ gp_missing = <<>>
    /\ gp_stage = "read"

GraphicsIdle ==
    /\ gp_main = <<>>
    /\ gp_included = <<>>
    /\ gp_include_dir = "D0"
    /\ gp_disk = {}
    /\ gp_clean_content = <<>>
    /\ gp_include_directories = <<>>
    /\ gp_figures = <<>>
    /\ graphicspath_entries = <<>>
    /\ graphicspaths = <<>>
    /\ asset_search_roots = <<>>
    /\ float_search_roots = <<>>
    /\ gp_missing = <<>>
    /\ gp_stage = "idle"

\* parser.read_and_preprocess(): the include file is inlined and its
\* directory registered
ResolveIncludes ==
    /\ gp_stage = "read"
    /\ gp_stage' = "inlined"
    /\ gp_clean_content' = inline_include(gp_main, gp_included)
    /\ gp_include_directories' =
           IF IncludeDirective \in Range(gp_main)
           THEN <<gp_include_dir>> ELSE <<>>
    /\ UNCHANGED <<gp_figures, graphicspath_entries, graphicspaths,
                   asset_search_roots, float_search_roots, gp_missing>>
    /\ UNCHANGED graphicsInputs
    /\ UNCHANGED notGraphics

\* parser.analyze_structure(): figure_contents and _determine_graphicspath
AnalyzeStructure ==
    /\ gp_stage = "inlined"
    /\ gp_stage' = "analyzed"
    /\ gp_figures' = SelectSeq(gp_clean_content, LAMBDA t : t.k = "float")
    /\ graphicspath_entries' = extract_graphicspaths(gp_clean_content)
    /\ graphicspaths' =
           determine_graphicspath(gp_clean_content, gp_include_directories)
    /\ UNCHANGED <<gp_clean_content, gp_include_directories,
                   asset_search_roots, float_search_roots, gp_missing>>
    /\ UNCHANGED graphicsInputs
    /\ UNCHANGED notGraphics

\* SubfileGenerator.__init__: self._asset_search_roots
BuildAssetSearchRoots ==
    /\ gp_stage = "analyzed"
    /\ gp_stage' = "roots"
    /\ asset_search_roots' =
           build_asset_search_roots(graphicspaths, graphicspath_entries,
                                    gp_include_directories)
    /\ UNCHANGED <<gp_clean_content, gp_include_directories, gp_figures,
                   graphicspath_entries, graphicspaths, float_search_roots,
                   gp_missing>>
    /\ UNCHANGED graphicsInputs
    /\ UNCHANGED notGraphics

\* SubfileGenerator._validate_graphic_assets(figure_contents, "figure")
ValidateGraphicAssets ==
    /\ gp_stage = "roots"
    /\ gp_stage' = "validated"
    /\ LET roots_of(i) == search_roots_of(gp_figures[i], asset_search_roots,
                                          gp_include_directories)
           indices == [i \in 1..Len(gp_figures) |-> i]
       IN  /\ float_search_roots' = [i \in 1..Len(gp_figures) |-> roots_of(i)]
           /\ gp_missing' =
                  SelectSeq(indices,
                            LAMBDA i : ~gp_asset_exists(roots_of(i)))
    /\ UNCHANGED <<gp_clean_content, gp_include_directories, gp_figures,
                   graphicspath_entries, graphicspaths, asset_search_roots>>
    /\ UNCHANGED graphicsInputs
    /\ UNCHANGED notGraphics

GraphicsNext ==
    \/ ResolveIncludes
    \/ AnalyzeStructure
    \/ BuildAssetSearchRoots
    \/ ValidateGraphicAssets

\* the scenario of the claim: the main file declares \graphicspath{{a/}}
\* (and nothing else), the included file declares \graphicspath{{b/}} (and
\* nothing else), and no float carries a declaration of its own
GraphicsScenario ==
    /\ GraphicsPathTok(<<"a/">>) \in Range(gp_main)
    /\ GraphicsPathTok(<<"b/">>) \notin Range(gp_main)
    /\ GraphicsFloat("main", <<"b/">>) \notin Range(gp_main)
    /\ IncludeDirective \in Range(gp_main)
    /\ GraphicsPathTok(<<"b/">>) \in Range(gp_included)
    /\ GraphicsPathTok(<<"a/">>) \notin Range(gp_included)

\* C6: with a document-level \graphicspath{{a/}} and an included file that
\* declares \graphicspath{{b/}}, a float of the included file is resolved
\* against b/ first and a float of the main body is never resolved against
\* b/.
C6_GraphicsPathPrecedence ==
    (gp_stage = "validated" /\ GraphicsScenario) =>
        \A i \in 1..Len(gp_figures) :
            LET roots == float_search_roots[i]
            IN  /\ gp_figures[i].origin = "included" =>
                      roots # <<>> /\ roots[1][2] = "b/"
                /\ gp_figures[i].origin = "main" =>
                      \A j \in 1..Len(roots) : roots[j][2] # "b/"

(***************************************************************************)
(* Table rule normalization: modifier.py ContentModifier                   *)
(* ._normalize_table_rules, ._convert_booktabs_rules and                   *)
(* ._apply_three_line_table_default.  The text between \begin{env} and     *)
(* \end{env} is a sequence of atoms: a cell run "cell", the row terminator *)
(* "\\\\", the newline "nl", a space "sp", a rule or spacing macro, and    *)
(* the argument atoms "[w]" (bracket argument), "{r}" (brace group without *)
(* inner braces), "{n}" (brace group with inner braces, such as the column *)
(* specification {l@{}c}) and "(t)" (the trim argument of \cmidrule).      *)
(***************************************************************************)
\* Most source lines between the column specification and \end{env}.
MaxLines == 3

TabularEnvs == {"tabular", "tabular*", "tabularx", "longtable"}
ColumnSpecs == {<<"{r}">>, <<"{n}">>}
BooktabsRules == {"\\toprule", "\\midrule", "\\bottomrule", "\\cmidrule"}

LineMenu ==
    {<<>>,
     <<"cell", "\\\\">>,
     <<"sp", "cell", "\\\\">>,
     <<"cell", "\\\\", "cell", "\\\\">>,
     <<"cell">>,
     <<"\\toprule">>,
     <<"\\midrule", "[w]">>,
     <<"\\bottomrule">>,
     <<"\\cmidrule", "{r}">>,
     <<"\\cmidrule", "(t)", "{r}">>,
     <<"\\hline">>,
     <<"\\cline", "{r}">>,
     <<"\\addlinespace", "[w]">>}

\* "\n".join(lines)
RECURSIVE join(_)
join(ls) ==
    IF ls = <<>> THEN <<>>
    ELSE IF Len(ls) = 1 THEN ls[1]
    ELSE ls[1] \o <<"nl">> \o join(Tail(ls))

\* text.split("\n")
RECURSIVE split(_, _)
split(text, current) ==
    IF text = <<>> THEN <<current>>
    ELSE IF Head(text) = "nl"
         THEN <<current>> \o split(Tail(text), <<>>)
         ELSE split(Tail(text), Append(current, Head(text)))

\* body.splitlines(): no empty last line after a final newline
splitlines(text) ==
    LET pieces == split(text, <<>>)
    IN  IF pieces[Len(pieces)] = <<>>
        THEN SubSeq(pieces, 1, Len(pieces) - 1)
        ELSE pieces

\* line.strip() == ""
blank(line) == \A i \in 1..Len(line) : line[i] = "sp"

\* regex.match(r"\s*", line).group(0)
RECURSIVE leading_space(_)
leading_space(line) ==
    IF line # <<>> /\ Head(line) = "sp"
    THEN <<"sp">> \o leading_space(Tail(line))
    ELSE <<>>

\* lines.insert(index, line), index counted from 0
insert(ls, index, line) ==
    IF index >= Len(ls) THEN Append(ls, line)
    ELSE SubSeq(ls, 1, index) \o <<line>> \o SubSeq(ls, index + 1, Len(ls))

\* number of atoms of a text that lie in a set
RECURSIVE count(_, _)
count(text, atoms) ==
    IF text = <<>> THEN 0
    ELSE (IF Head(text) \in atoms THEN 1 ELSE 0) + count(Tail(text), atoms)

\* (?P<options>(?:\[[^\]]*\])?(?:\{[^{}]*\})*): length of the match
RECURSIVE simple_groups(_)
simple_groups(text) ==
    IF text # <<>> /\ Head(text) = "{r}"
    THEN 1 + simple_groups(Tail(text))
    ELSE 0

options_length(text) ==
    IF text # <<>> /\ Head(text) = "[w]"
    THEN 1 + simple_groups(Tail(text))
    ELSE simple_groups(text)

\* regex.sub(r"\\macro(?:\[[^\]]*\])?", replacement, text)
RECURSIVE sub_rule(_, _, _)
sub_rule(text, macro, replacement) ==
    IF text = <<>> THEN <<>>
    ELSE IF Head(text) = macro
         THEN LET n == IF Len(text) >= 2 /\ text[2] = "[w]" THEN 2 ELSE 1
              IN  replacement
                  \o sub_rule(SubSeq(text, n + 1, Len(text)), macro,
                              replacement)
         ELSE <<Head(text)>> \o sub_rule(Tail(text), macro, replacement)

\* regex.sub(r"\\cmidrule(?:\[[^\]]*\])?\{[^}]+\}", r"\\hline", text)
RECURSIVE sub_cmidrule(_)
sub_cmidrule(text) ==
    IF text = <<>> THEN <<>>
    ELSE LET n == IF Len(text) >= 2 /\ text[2] = "[w]" THEN 2 ELSE 1
         IN  IF /\ Head(text) = "\\cmidrule"
                /\ Len(text) >= n + 1
                /\ text[n + 1] = "{r}"
             THEN <<"\\hline">>
                  \o sub_cmidrule(SubSeq(text, n + 2, Len(text)))
             ELSE <<Head(text)>> \o sub_cmidrule(Tail(text))

\* ContentModifier._convert_booktabs_rules
convert_booktabs_rules(text) ==
    LET top == sub_rule(text, "\\toprule", <<"\\hline">>)
        mid == sub_rule(top, "\\midrule", <<"\\hline">>)
        bottom == sub_rule(mid, "\\bottomrule", <<"\\hline">>)
        cmid == sub_cmidrule(bottom)
    IN  sub_rule(cmid, "\\addlinespace", <<>>)

\* regex.search(r"\\(hline|cline)", transformed)
has_rule(text) == count(text, {"\\hline", "\\cline"}) > 0

Min(S) == CHOOSE x \in S : \A y \in S : x <= y

\* number of blank lines at the end of a list of lines
RECURSIVE trailing_blank(_)
trailing_blank(ls) ==
    IF ls # <<>> /\ blank(ls[Len(ls)])
    THEN 1 + trailing_blank(SubSeq(ls, 1, Len(ls) - 1))
    ELSE 0

\* header_insert_idx = header_idx + 2
header_insert_idx(header_idx) == header_idx + 2

\* ContentModifier._apply_three_line_table_default
apply_three_line_table_default(text) ==
    LET ls == splitlines(text)
        ends_with_newline == text # <<>> /\ text[Len(text)] = "nl"
        nonblank == {i \in 1..Len(ls) : ~blank(ls[i])}
    IN  IF ls = <<>> \/ nonblank = {} THEN text
        ELSE
        LET first_idx == Min(nonblank) - 1
            indent == leading_space(ls[first_idx + 1])
            rule == indent \o <<"\\hline">>
            headers == {i \in (first_idx + 1)..Len(ls) :
                           "\\\\" \in Range(ls[i])}
            with_top == insert(ls, first_idx, rule)
            with_header ==
                IF headers = {} THEN with_top
                ELSE insert(with_top, header_insert_idx(Min(headers) - 1),
                            rule)
            k == trailing_blank(with_header)
            n == Len(with_header)
            with_bottom == SubSeq(with_header, 1, n - k) \o <<rule>>
                           \o SubSeq(with_header, n - k + 1, n)
        IN  join(with_bottom)
            \o (IF ends_with_newline THEN <<"nl">> ELSE <<>>)

TableInit ==
    /\ env \in TabularEnvs
    /\ \E colspec \in ColumnSpecs, ls \in SeqsUpTo(LineMenu, MaxLines),
          final_newline \in BOOLEAN :
            table_text = colspec \o join(ls)
                         \o (IF final_newline THEN <<"nl">> ELSE <<>>)
    /\ options = <<>>
    /\ body = <<>>
    /\ transformed = <<>>
    /\ table_result = <<>>
    /\ tstage = "text"

TableIdle ==
    /\ env = "tabular"
    /\ table_text = <<>>
    /\ options = <<>>
    /\ body = <<>>
    /\ transformed = <<>>
    /\ table_result = <<>>
    /\ tstage = "idle"

\* pattern.sub(replace_table, ...): the groups of one match
MatchTable ==
    /\ tstage = "text"
    /\ tstage' = "matched"
    /\ options' = SubSeq(table_text, 1, options_length(table_text))
    /\ body' = SubSeq(table_text, options_length(table_text) + 1,
                      Len(table_text))
    /\ UNCHANGED <<env, table_text, transformed, table_result>>
    /\ UNCHANGED notTable

\* replace_table: transformed = self._convert_booktabs_rules(body)
ConvertBooktabsRules ==
    /\ tstage = "matched"
    /\ tstage' = "converted"
    /\ transformed' = convert_booktabs_rules(body)
    /\ UNCHANGED <<env, table_text, options, body, table_result>>
    /\ UNCHANGED notTable

\* replace_table: the three-line default when no rule is left, and the
\* replacement text \begin{env}{options}{transformed}\end{env}
ApplyThreeLineTableDefault ==
    /\ tstage = "converted"
    /\ tstage' = "replaced"
    /\ LET final == IF has_rule(transformed) THEN transformed
                    ELSE apply_three_line_table_default(transformed)
       IN  /\ transformed' = final
           /\ table_result' = options \o final
    /\ UNCHANGED <<env, table_text, options, body>>
    /\ UNCHANGED notTable

TableNext ==
    \/ MatchTable
    \/ ConvertBooktabsRules
    \/ ApplyThreeLineTableDefault

(***************************************************************************)
(* Claims on table rule normalization.                                     *)
(***************************************************************************)
Whitespace == {"nl", "sp"}
Positions(text, atoms) == {i \in 1..Len(text) : text[i] \in atoms}

\* the rules are at p1 < p2 < p3: p1 is preceded by white space only, only
\* white space lies between the first row terminator and p2, and p3 is
\* followed by white space only
ThreeLinePlacement(text) ==
    LET rules == Positions(text, {"\\hline"})
        terminators == Positions(text, {"\\\\"})
    IN  /\ Cardinality(rules) = 3
        /\ terminators # {}
        /\ LET p1 == Min(rules)
               p2 == Min(rules \ {p1})
               p3 == Min(rules \ {p1, p2})
               q == Min(terminators)
           IN  /\ \A j \in 1..(p1 - 1) : text[j] \in Whitespace
               /\ p1 < q
               /\ q < p2
               /\ \A j \in (q + 1)..(p2 - 1) : text[j] \in Whitespace
               /\ \A j \in (p3 + 1)..Len(text) : text[j] \in Whitespace

\* C7: a tabular-like environment with no rule marker and at least one row
\* terminator has exactly 3 \hline after rule normalization: one before the
\* first content row, one between the header row (ended by the first row
\* terminator) and the following row, and one after the last row.
C7_ThreeLineDefaultInjection ==
    (/\ tstage = "replaced"
     /\ count(body, BooktabsRules \cup {"\\hline", "\\cline"}) = 0
     /\ count(body, {"\\\\"}) > 0)
        => ThreeLinePlacement(transformed)

\* C8: after rule normalization of an environment that uses professional
\* rule macros (top, mid, bottom, column-partial, with or without optional
\* arguments), the number of \hline equals the number of professional rule
\* macros of the original body and none of these macros remains.
C8_BooktabsConversion ==
    (/\ tstage = "replaced"
     /\ count(body, BooktabsRules) > 0
     /\ count(body, {"\\hline", "\\cline"}) = 0)
        => /\ count(transformed, {"\\hline"}) = count(body, BooktabsRules)
           /\ count(transformed, BooktabsRules) = 0

(***************************************************************************)
(* The compile batch: subfile.py SubfileCompiler._compile_parallel.  The   *)
(* subfiles are 1..n.  unit_behaviour[u] is what the typesetting of        *)
(* subfile u does whenever it is run; the worker pool runs at most         *)
(* max_workers units at a time, and the calling thread collects the        *)
(* futures in the order in which they complete.                            *)
(***************************************************************************)
\* Most subfiles of one batch.
MaxUnits == 4

\* CompilerOptions.MAX_WORKERS
MAX_WORKERS == 4

UnitBehaviours == {"success", "failure", "timeout", "exception"}

Units(paths) == 1..Len(paths)

\* min(CompilerOptions.MAX_WORKERS, len(file_paths))
pool_size(paths) == IF Len(paths) < MAX_WORKERS THEN Len(paths)
                    ELSE MAX_WORKERS

\* SubfileCompiler._compile_single_file as seen through future.result():
\* True, False (nonzero exit, timeout, no raster file) or an exception
compile_single_file(behaviour) ==
    CASE behaviour = "success" -> "True"
      [] behaviour = "failure" -> "False"
      [] behaviour = "timeout" -> "False"
      [] behaviour = "exception" -> "raised"

\* a variant whose exception handler lets the exception escape
collect_result_propagating(result, successes, failed, name) ==
    CASE result = "True" ->
            [successful_count |-> successes + 1, failed_files |-> failed,
             raised |-> FALSE]
      [] result = "False" ->
            [successful_count |-> successes,
             failed_files |-> Append(failed, name), raised |-> FALSE]
      [] OTHER ->
            [successful_count |-> successes, failed_files |-> failed,
             raised |-> TRUE]

\* the body of "for future in progress": try / except Exception
collect_result(result, successes, failed, name) ==
    CASE result = "True" ->
            [successful_count |-> successes + 1, failed_files |-> failed,
             raised |-> FALSE]
      [] result = "False" ->
            [successful_count |-> successes,
             failed_files |-> Append(failed, name), raised |-> FALSE]
      [] OTHER ->
            [successful_count |-> successes,
             failed_files |-> Append(failed, name), raised |-> FALSE]

CompileInit ==
    /\ \E n \in 1..MaxUnits :
        /\ file_paths = [i \in 1..n |-> i]
        /\ unit_behaviour \in [1..n -> UnitBehaviours]
    /\ max_workers = 0
    /\ work_queue = <<>>
    /\ running = {}
    /\ future_result = <<>>
    /\ collected = {}
    /\ successful_count = 0
    /\ failed_files = <<>>
    /\ cp_pc = "called"

CompileIdle ==
    /\ file_paths = <<>>
    /\ unit_behaviour = <<>>
    /\ max_workers = 0
    /\ work_queue = <<>>
    /\ running = {}
    /\ future_result = <<>>
    /\ collected = {}
    /\ successful_count = 0
    /\ failed_files = <<>>
    /\ cp_pc = "idle"

\* the executor is created and every path is submitted
SubmitAll ==
    /\ cp_pc = "called"
    /\ cp_pc' = "collecting"
    /\ max_workers' = pool_size(file_paths)
    /\ work_queue' = file_paths
    /\ future_result' = [u \in Units(file_paths) |-> "pending"]
    /\ UNCHANGED <<file_paths, unit_behaviour, running, collected,
                   successful_count, failed_files>>
    /\ UNCHANGED notCompile

\* a free worker takes the next submitted unit
StartUnit ==
    /\ cp_pc \in {"collecting", "raised"}
    /\ work_queue # <<>>
    /\ Cardinality(running) < max_workers
    /\ running' = running \cup {Head(work_queue)}
    /\ work_queue' = Tail(work_queue)
    /\ UNCHANGED <<file_paths, unit_behaviour, max_workers, future_result,
                   collected, successful_count, failed_files, cp_pc>>
    /\ UNCHANGED notCompile

\* a worker finishes its unit and the future completes
FinishUnit(u) ==
    /\ u \in running
    /\ running' = running \ {u}
    /\ future_result' =
           [future_result EXCEPT ![u] = compile_single_file(unit_behaviour[u])]
    /\ UNCHANGED <<file_paths, unit_behaviour, max_workers, work_queue,
                   collected, successful_count, failed_files, cp_pc>>
    /\ UNCHANGED notCompile

\* as_completed yields a completed future; the loop body handles it
CollectResult(u) ==
    /\ cp_pc = "collecting"
    /\ u \in Units(file_paths) \ collected
    /\ future_result[u] # "pending"
    /\ LET r == collect_result(future_result[u], successful_count,
                               failed_files, file_paths[u])
       IN  /\ successful_count' = r.successful_count
           /\ failed_files' = r.failed_files
           /\ cp_pc' = IF r.raised THEN "raised" ELSE "collecting"
    /\ collected' = collected \cup {u}
    /\ UNCHANGED <<file_paths, unit_behaviour, max_workers, work_queue,
                   running, future_result>>
    /\ UNCHANGED notCompile

\* every future has been yielded; the executor is shut down and
\* (successful_count, failed_files) is returned
ReturnBatch ==
    /\ cp_pc = "collecting"
    /\ collected = Units(file_paths)
    /\ cp_pc' = "returned"
    /\ UNCHANGED <<file_paths, unit_behaviour, max_workers, work_queue,
                   running, future_result, collected, successful_count,
                   failed_files>>
    /\ UNCHANGED notCompile

CompileNext ==
    \/ SubmitAll
    \/ StartUnit
    \/ \E u \in Units(file_paths) : FinishUnit(u)
    \/ \E u \in Units(file_paths) : CollectResult(u)
    \/ ReturnBatch

(***************************************************************************)
(* Claims on the compile batch.                                            *)
(***************************************************************************)
UnitsBehaving(behaviours) ==
    {u \in Units(file_paths) : unit_behaviour[u] \in behaviours}

\* C9: the batch returns only after the result of every submitted subfile
\* has been collected; at return the success count plus the number of
\* recorded failures equals the number of submitted subfiles; a unit that
\* reports failure, times out or raises is recorded as failed, no sibling
\* is cancelled, skipped or failed because of it, and the batch call itself
\* never raises.
C9_BatchFailureIsolation ==
    /\ cp_pc # "raised"
    /\ cp_pc = "returned" =>
        /\ collected = Units(file_paths)
        /\ \A u \in Units(file_paths) : future_result[u] # "pending"
        /\ successful_count + Len(failed_files) = Len(file_paths)
        /\ Range(failed_files) =
               {file_paths[u] : u \in UnitsBehaving(UnitBehaviours
                                                     \ {"success"})}
        /\ successful_count = Cardinality(UnitsBehaving({"success"}))

\* a returned batch in which one unit failed, one timed out, one raised
\* and one succeeded
C9_Witness ==
    /\ cp_pc = "returned"
    /\ UnitsBehaving({"failure"}) # {}
    /\ UnitsBehaving({"timeout"}) # {}
    /\ UnitsBehaving({"exception"}) # {}
    /\ UnitsBehaving({"success"}) # {}
    /\ successful_count = 1
    /\ Len(failed_files) = 3

(***************************************************************************)
(* The bibliography set: config.py ConversionConfig.__post_init__ /        *)
(* _register_bibliography_path and parser.py                               *)
(* LatexParser._detect_bibliography_file.  A resolved path is a pair       *)
(* <<directory, name>>; NoPath stands for None.                            *)
(***************************************************************************)
\* Most bibliography hints (\bibliography, \addbibresource) in the text.
MaxCandidates == 2

NoPath == <<>>
BibDirs == {"D0", "D1"}
BibNames == {"refs", "refs.bib", "x.bib"}
BibPaths == BibDirs \X BibNames
BibHints == {"refs", "refs.bib", "x.bib"}

\* target.suffix.lower() != ".bib"
has_bib_suffix(name) == name \in {"refs.bib", "x.bib"}

\* target.with_suffix(".bib")
with_bib_suffix(path) ==
    <<path[1], IF path[2] = "refs" THEN "refs.bib" ELSE path[2]>>

\* for target in targets: expanded.append(target) and, when the suffix is
\* not .bib, expanded.append(target.with_suffix(".bib"))
RECURSIVE expand_targets(_)
expand_targets(targets) ==
    IF targets = <<>> THEN <<>>
    ELSE LET target == Head(targets)
         IN  (IF has_bib_suffix(target[2]) THEN <<target>>
              ELSE <<target, with_bib_suffix(target)>>)
             \o expand_targets(Tail(targets))

\* LatexParser._expand_bibliography_candidate
expand_bibliography_candidate(raw_candidate, base_directories) ==
    expand_targets([i \in 1..Len(base_directories) |->
                       <<base_directories[i], raw_candidate>>])

\* a variant that appends without looking for the path in the list
register_bibliography_path_again(cfg, path) ==
    [cfg EXCEPT !.bibliography_files = Append(@, path),
                !.bibfile = IF @ = NoPath /\ ~cfg.explicit THEN path ELSE @]

\* ConversionConfig._register_bibliography_path on the record
\* [bibfile, explicit, bibliography_files]
register_bibliography_path(cfg, path) ==
    [cfg EXCEPT !.bibliography_files =
                    IF path \in Range(@) THEN @ ELSE Append(@, path),
                !.bibfile = IF @ = NoPath /\ ~cfg.explicit THEN path ELSE @]

\* the inner loops of _detect_bibliography_file over the expanded paths of
\* one candidate: st = [cfg, seen, detected]
RECURSIVE detect_paths(_, _, _)
detect_paths(paths, disk, st) ==
    IF paths = <<>> THEN st
    ELSE LET path == Head(paths)
         IN  IF path \in st.seen
             THEN detect_paths(Tail(paths), disk, st)
             ELSE detect_paths(Tail(paths), disk,
                    [cfg |-> IF path \in disk
                             THEN register_bibliography_path(st.cfg, path)
                             ELSE st.cfg,
                     seen |-> st.seen \cup {path},
                     detected |-> IF path \in disk
                                  THEN Append(st.detected, path)
                                  ELSE st.detected])

\* PatternMatcher.extract_bibliography_files returns each hint once
BibHintLists ==
    {h \in SeqsUpTo(BibHints, MaxCandidates) :
        \A i, j \in 1..Len(h) : i # j => h[i] # h[j]}

BibInit ==
    /\ bib_disk \in SUBSET BibPaths
    /\ bib_hints \in BibHintLists
    /\ bib_search_dirs \in {<<"D0">>, <<"D0", "D1">>}
    /\ bibfile \in {NoPath, <<"D0", "refs.bib">>, <<"D1", "x.bib">>}
    /\ bibfile_explicit = FALSE
    /\ bibliography_files = <<>>
    /\ bib_configured = NoPath
    /\ bib_index = 1
    /\ bib_seen = {}
    /\ bib_detected = <<>>
    /\ bib_stage = "new"

BibIdle ==
    /\ bib_disk = {}
    /\ bib_hints = <<>>
    /\ bib_search_dirs = <<>>
    /\ bibfile = NoPath
    /\ bibfile_explicit = FALSE
    /\ bibliography_files = <<>>
    /\ bib_configured = NoPath
    /\ bib_index = 1
    /\ bib_seen = {}
    /\ bib_detected = <<>>
    /\ bib_stage = "idle"

\* ConversionConfig.__post_init__: _bibfile_explicit, _set_default_paths
\* (the first *.bib beside the input file, in the order glob yields them)
\* and _initialize_bibliography_files
PostInit ==
    /\ bib_stage = "new"
    /\ bib_stage' = "configured"
    /\ bibfile_explicit' = (bibfile # NoPath)
    /\ LET globbed == {q \in bib_disk : q[1] = "D0" /\ has_bib_suffix(q[2])}
       IN  \E primary \in (IF bibfile # NoPath THEN {bibfile}
                           ELSE IF globbed = {} THEN {NoPath}
                           ELSE globbed) :
             /\ bibfile' = primary
             /\ bib_configured' = primary
             /\ bibliography_files' =
                    IF primary = NoPath THEN <<>> ELSE <<primary>>
    /\ UNCHANGED <<bib_disk, bib_hints, bib_search_dirs, bib_index,
                   bib_seen, bib_detected>>
    /\ UNCHANGED notBib

\* LatexParser._detect_bibliography_file: one pass of
\* "for raw_candidate in candidates"
DetectCandidate ==
    /\ bib_stage = "configured"
    /\ bib_index <= Len(bib_hints)
    /\ LET st == detect_paths(
                    expand_bibliography_candidate(bib_hints[bib_index],
                                                  bib_search_dirs),
                    bib_disk,
                    [cfg |-> [bibfile |-> bibfile,
                              explicit |-> bibfile_explicit,
                              bibliography_files |-> bibliography_files],
                     seen |-> bib_seen,
                     detected |-> bib_detected])
       IN  /\ bibfile' = st.cfg.bibfile
           /\ bibliography_files' = st.cfg.bibliography_files
           /\ bib_seen' = st.seen
           /\ bib_detected' = st.detected
    /\ bib_index' = bib_index + 1
    /\ UNCHANGED <<bib_disk, bib_hints, bib_search_dirs, bibfile_explicit,
                   bib_configured, bib_stage>>
    /\ UNCHANGED notBib

\* _detect_bibliography_file returns: no candidate (left)
DetectionDone ==
    /\ bib_stage = "configured"
    /\ bib_index > Len(bib_hints)
    /\ bib_stage' = "detected"
    /\ UNCHANGED <<bib_disk, bib_hints, bib_search_dirs, bibfile,
                   bibfile_explicit, bibliography_files, bib_configured,
                   bib_index, bib_seen, bib_detected>>
    /\ UNCHANGED notBib

BibNext ==
    \/ PostInit
    \/ DetectCandidate
    \/ DetectionDone

\* the existing files the hints of the text expand to
DetectableFiles ==
    UNION {Range(expand_bibliography_candidate(bib_hints[i],
                                               bib_search_dirs))
           : i \in 1..Len(bib_hints)} \cap bib_disk

\* C12: after any sequence of auto-detected registrations an explicitly
\* configured bibliography file is still the primary bibfile and the first
\* entry of the active set; every detected file that exists has been
\* appended after it in detection order; the active set never holds the
\* same resolved path twice; and when nothing was configured or defaulted
\* the first detected file is the primary bibfile.
C12_BibliographySet ==
    bib_stage \in {"configured", "detected"} =>
        /\ bibfile_explicit =>
              /\ bibfile = bib_configured
              /\ bibliography_files # <<>>
              /\ bibliography_files[1] = bibfile
        /\ bibliography_files =
              unique((IF bib_configured = NoPath THEN <<>>
                      ELSE <<bib_configured>>) \o bib_detected)
        /\ \A i, j \in 1..Len(bibliography_files) :
              i # j => bibliography_files[i] # bibliography_files[j]
        /\ (bib_configured = NoPath /\ bib_detected # <<>>) =>
              bibfile = bib_detected[1]
        /\ bib_stage = "detected" =>
              DetectableFiles \subseteq Range(bibliography_files)

\* an explicit bibliography file that detection found again, together with
\* a second detected file appended after it
C12_Witness ==
    /\ bib_stage = "detected"
    /\ bibfile_explicit
    /\ bibfile \in Range(bib_detected)
    /\ Len(bibliography_files) >= 2
    /\ Len(bib_detected) > Len(bibliography_files) - 1

(***************************************************************************)
(* The metadata file handed to pandoc (config.py).  A caption style is     *)
(* kept by two of its fields; the other fields of CaptionStyle are         *)
(* handled by the same code.                                               *)
(***************************************************************************)
NoValue == "None"
METADATA_FILE == "pandoc_metadata.yaml"
OverrideTarget == "pandoc_metadata_overrides.yaml"
\* a file's content is <<text>>; a file that is not there has none
Absent == <<>>

\* CaptionStyle.default()
default_style == [figure_template |-> "Figure", title_delim |-> ":"]
zh_style == [figure_template |-> "Tu", title_delim |-> "fullwidth colon"]

Locales == {"en", "", "zh", "ZH-CN", "fr"}

\* CaptionStyle.from_locale
from_locale(locale) ==
    IF locale \in {"", "en"} THEN default_style
    ELSE IF locale \in {"zh", "ZH-CN"} THEN zh_style
    ELSE default_style

\* the override dictionaries: each key absent, None or a value; a key that
\* CaptionStyle does not have
OverrideKeys == {"figure_template", "title_delim", "unknown_key"}
OverrideValues(key) ==
    CASE key = "figure_template" -> {NoValue, "Figure", "Abb."}
      [] key = "title_delim" -> {NoValue, ":", "."}
      [] OTHER -> {"x"}
Overrides ==
    UNION {{f \in [K -> {NoValue, "Figure", "Abb.", ":", ".", "x"}] :
               \A k \in K : f[k] \in OverrideValues(k)}
           : K \in SUBSET OverrideKeys}

\* CaptionStyle.with_overrides
with_overrides(style, overrides) ==
    IF DOMAIN overrides = {} THEN style
    ELSE [key \in DOMAIN style |->
             IF key \in DOMAIN overrides /\ overrides[key] # NoValue
             THEN overrides[key] ELSE style[key]]

CaptionStyles == {default_style, zh_style}

\* CaptionStyle.is_default
is_default(style) == style = default_style

\* prepare_author_metadata: None, or a dictionary with a non-empty author
\* list
AuthorInputs == {NoValue, "no records", "Ada", "Ada and Bob"}
prepare_author_metadata(metadata) ==
    IF metadata \in {NoValue, "no records"} THEN NoValue ELSE metadata

\* ConversionConfig.has_author_metadata
has_author_metadata(metadata) == metadata # NoValue

\* ConversionConfig._build_metadata_yaml: the caption keys, then the author
\* section when there is one
build_metadata_yaml(style, metadata) ==
    [figureTemplate |-> style.figure_template,
     titleDelim |-> style.title_delim,
     author |-> metadata]

\* a variant that keeps the generated override
reset_metadata_override_kept(override_file) == override_file

\* ConversionConfig._reset_metadata_override
reset_metadata_override(override_file) == NoValue

MetadataInit ==
    /\ caption_style = default_style
    /\ author_metadata = NoValue
    /\ metadata_override_file = NoValue
    /\ md_disk = Absent
    /\ md_returned = <<>>
    /\ md_last_call = "__post_init__"

MetadataIdle ==
    /\ caption_style = default_style
    /\ author_metadata = NoValue
    /\ metadata_override_file = NoValue
    /\ md_disk = Absent
    /\ md_returned = <<>>
    /\ md_last_call = "idle"

\* ConversionConfig.apply_caption_preferences
ApplyCaptionPreferences ==
    /\ md_last_call # "idle"
    /\ \E style \in {<<>>} \cup {<<given>> : given \in CaptionStyles},
          locale \in Locales \cup {NoValue},
          overrides \in Overrides :
          LET chosen == IF style # <<>> THEN style[1] ELSE caption_style
              located == IF locale # NoValue THEN from_locale(locale)
                         ELSE chosen
              updated_style == with_overrides(located, overrides)
              style_changed == updated_style # caption_style
                               \/ style # <<>>
          IN  /\ caption_style' = updated_style
              /\ metadata_override_file' =
                    IF style_changed \/ locale # NoValue
                       \/ DOMAIN overrides # {}
                    THEN reset_metadata_override(metadata_override_file)
                    ELSE metadata_override_file
    /\ md_last_call' = "apply_caption_preferences"
    /\ UNCHANGED <<author_metadata, md_disk, md_returned>>
    /\ UNCHANGED notMetadata

\* ConversionConfig.set_author_metadata
SetAuthorMetadata ==
    /\ md_last_call # "idle"
    /\ \E metadata \in AuthorInputs :
          author_metadata' = prepare_author_metadata(metadata)
    /\ metadata_override_file' =
          reset_metadata_override(metadata_override_file)
    /\ md_last_call' = "set_author_metadata"
    /\ UNCHANGED <<caption_style, md_disk, md_returned>>
    /\ UNCHANGED notMetadata

\* ConversionConfig.get_metadata_file
GetMetadataFile ==
    /\ md_last_call # "idle"
    /\ md_last_call' = "get_metadata_file"
    /\ IF is_default(caption_style) /\ ~has_author_metadata(author_metadata)
       THEN /\ md_returned' = <<METADATA_FILE, Absent>>
            /\ UNCHANGED <<metadata_override_file, md_disk>>
       ELSE IF metadata_override_file # NoValue /\ md_disk # Absent
       THEN /\ md_returned' = <<metadata_override_file, md_disk>>
            /\ UNCHANGED <<metadata_override_file, md_disk>>
       ELSE /\ md_disk' =
                  <<build_metadata_yaml(caption_style, author_metadata)>>
            /\ metadata_override_file' = OverrideTarget
            /\ md_returned' = <<OverrideTarget, md_disk'>>
    /\ UNCHANGED <<caption_style, author_metadata>>
    /\ UNCHANGED notMetadata

\* FileManager.prepare_temp_directory: an existing temporary directory is
\* removed with what it holds
RemoveTempDirectory ==
    /\ md_last_call # "idle"
    /\ md_disk # Absent
    /\ md_disk' = Absent
    /\ UNCHANGED <<caption_style, author_metadata, metadata_override_file,
                   md_returned, md_last_call>>
    /\ UNCHANGED notMetadata

MetadataNext ==
    \/ ApplyCaptionPreferences
    \/ SetAuthorMetadata
    \/ GetMetadataFile
    \/ RemoveTempDirectory

\* C13: right after a get_metadata_file call, whatever setters and earlier
\* calls came before it, the file returned is the bundled default exactly
\* when the caption style is the default and no author entries are
\* configured; otherwise it is the generated override and its content is
\* the caption style and author metadata of the moment of the call.
C13_MetadataFileCoherence ==
    md_last_call = "get_metadata_file" =>
        /\ md_returned[1] = METADATA_FILE <=>
              (is_default(caption_style)
               /\ ~has_author_metadata(author_metadata))
        /\ md_returned[1] # METADATA_FILE =>
              /\ md_returned[1] = OverrideTarget
              /\ md_returned[2] =
                    <<build_metadata_yaml(caption_style, author_metadata)>>

\* an override was generated, a setter changed the configuration while the
\* old file was still on disk, and the next call returned an override
C13_Witness ==
    /\ md_last_call = "get_metadata_file"
    /\ md_returned[1] = OverrideTarget
    /\ caption_style = zh_style
    /\ author_metadata = "Ada and Bob"
    /\ md_disk # Absent

(***************************************************************************)
(* The convert command (cli.py).                                           *)
(***************************************************************************)
NoException == <<>>

\* what the construction of LatexToWordConverter raises: the config.py
\* validation failures (the built-in FileNotFoundError) and the ValueError
\* of the author parser
ConstructionFailures ==
    {<<"FileNotFoundError", "Input TeX file not found">>,
     <<"FileNotFoundError", "CSL file not found">>,
     <<"FileNotFoundError", "Reference document not found">>,
     <<"FileNotFoundError", "Lua filter not found">>,
     <<"ValueError", "Unbalanced delimiters">>}

\* what converter.convert() re-raises: the failures of the package's own
\* exception module, and built-in exceptions
ConversionFailures ==
    {<<"exceptions.ConfigurationError", "Temporary directory">>,
     <<"exceptions.DependencyError", "Pandoc not found">>,
     <<"exceptions.ParseError", "Could not read input file">>,
     <<"exceptions.FileNotFoundError", "Missing graphic assets">>,
     <<"exceptions.ConversionError", "Pandoc conversion failed">>,
     <<"exceptions.ConversionError", "Pandoc conversion timed out">>,
     <<"exceptions.Tex2DocxError", "Parser did not produce content">>,
     <<"FileNotFoundError", "Reference document not found">>,
     <<"OSError", "Error managing temp directory">>,
     <<"ValueError", "No modified content to write">>}

\* the failures the command is to report: configuration, dependency,
\* parse, missing-asset and conversion errors
DomainFailures ==
    {f \in ConstructionFailures : f[1] = "FileNotFoundError"}
    \cup {f \in ConversionFailures : f[1] # "ValueError"}

\* isinstance(exc, Tex2DocxError): the classes of the exception module
\* derive from some exception class, the built-in ones not from
\* Tex2DocxError
is_Tex2DocxError(type) ==
    CASE type = "exceptions.Tex2DocxError" -> {TRUE}
      [] type \in {"FileNotFoundError", "OSError", "ValueError"} -> {FALSE}
      [] OTHER -> BOOLEAN

\* a variant in which the catch-all handler ends the command normally
exit_code_unexpected_ignored(ending) ==
    CASE ending = "returned" -> 0
      [] ending = "except Tex2DocxError" -> 1
      [] ending = "except Exception" -> 0
      [] ending = "uncaught exception" -> 1
      [] ending = "typer.BadParameter" -> 2

\* the exit status of the command: typer.Exit(code=1) in both handlers, the
\* interpreter's status 1 for an exception nobody caught, the usage-error
\* status 2 for typer.BadParameter
exit_code(ending) ==
    CASE ending = "returned" -> 0
      [] ending = "except Tex2DocxError" -> 1
      [] ending = "except Exception" -> 1
      [] ending = "uncaught exception" -> 1
      [] ending = "typer.BadParameter" -> 2

CliInit ==
    /\ cli_caption_locale \in {NoValue, "", " ", "zh"}
    /\ cli_authors \in {"none", "valid", "invalid"}
    /\ cli_fix_table \in BOOLEAN
    /\ cli_debug \in BOOLEAN
    /\ locale_value = NoValue
    /\ cli_exception = NoException
    /\ cli_converted = FALSE
    /\ cli_stderr = <<>>
    /\ cli_exit = <<>>
    /\ cli_pc = "invoked"

CliIdle ==
    /\ cli_caption_locale = NoValue
    /\ cli_authors = "none"
    /\ cli_fix_table = FALSE
    /\ cli_debug = FALSE
    /\ locale_value = NoValue
    /\ cli_exception = NoException
    /\ cli_converted = FALSE
    /\ cli_stderr = <<>>
    /\ cli_exit = <<>>
    /\ cli_pc = "idle"

\* convert: locale_value and _collect_author_metadata
CollectOptions ==
    /\ cli_pc = "invoked"
    /\ locale_value' = IF cli_caption_locale \in {NoValue, "", " "}
                       THEN NoValue ELSE cli_caption_locale
    /\ IF cli_authors = "invalid"
       THEN /\ cli_pc' = "exited"
            /\ cli_stderr' = <<"Usage error">>
            /\ cli_exit' = <<exit_code("typer.BadParameter")>>
       ELSE /\ cli_pc' = "collected"
            /\ UNCHANGED <<cli_stderr, cli_exit>>
    /\ UNCHANGED <<cli_caption_locale, cli_authors, cli_fix_table, cli_debug,
                   cli_exception, cli_converted>>
    /\ UNCHANGED notCli

\* convert: converter = LatexToWordConverter(...), before the try block
Construct ==
    /\ cli_pc = "collected"
    /\ \E failure \in ConstructionFailures \cup {NoException} :
          /\ cli_exception' = failure
          /\ cli_pc' = IF failure = NoException THEN "constructed"
                       ELSE "uncaught"
    /\ UNCHANGED <<cli_caption_locale, cli_authors, cli_fix_table, cli_debug,
                   locale_value, cli_converted, cli_stderr, cli_exit>>
    /\ UNCHANGED notCli

\* convert: try: converter.convert()
RunConvert ==
    /\ cli_pc = "constructed"
    /\ \E failure \in ConversionFailures \cup {NoException} :
          /\ cli_exception' = failure
          /\ cli_converted' = (failure = NoException)
          /\ IF failure = NoException
             THEN cli_pc' = "converted"
             ELSE \E domain \in is_Tex2DocxError(failure[1]) :
                     cli_pc' = IF domain THEN "except Tex2DocxError"
                               ELSE "except Exception"
    /\ UNCHANGED <<cli_caption_locale, cli_authors, cli_fix_table, cli_debug,
                   locale_value, cli_stderr, cli_exit>>
    /\ UNCHANGED notCli

\* convert: except Tex2DocxError as exc
ExceptTex2DocxError ==
    /\ cli_pc = "except Tex2DocxError"
    /\ cli_stderr' = <<<<"Conversion failed:", cli_exception[2]>>>>
    /\ cli_exit' = <<exit_code("except Tex2DocxError")>>
    /\ cli_pc' = "exited"
    /\ UNCHANGED <<cli_caption_locale, cli_authors, cli_fix_table, cli_debug,
                   locale_value, cli_exception, cli_converted>>
    /\ UNCHANGED notCli

\* convert: except Exception as exc
ExceptException ==
    /\ cli_pc = "except Exception"
    /\ cli_stderr' = <<<<"Unexpected error during conversion.", "">>,
                       <<"", cli_exception[2]>>>>
    /\ cli_exit' = <<exit_code("except Exception")>>
    /\ cli_pc' = "exited"
    /\ UNCHANGED <<cli_caption_locale, cli_authors, cli_fix_table, cli_debug,
                   locale_value, cli_exception, cli_converted>>
    /\ UNCHANGED notCli

\* app(): an exception raised outside the try block leaves the command;
\* the interpreter writes the traceback and ends with status 1
UncaughtException ==
    /\ cli_pc = "uncaught"
    /\ cli_stderr' = <<<<"Traceback", cli_exception[2]>>>>
    /\ cli_exit' = <<exit_code("uncaught exception")>>
    /\ cli_pc' = "exited"
    /\ UNCHANGED <<cli_caption_locale, cli_authors, cli_fix_table, cli_debug,
                   locale_value, cli_exception, cli_converted>>
    /\ UNCHANGED notCli

\* convert returns after converter.convert() returned
ReturnFromConvert ==
    /\ cli_pc = "converted"
    /\ cli_exit' = <<exit_code("returned")>>
    /\ cli_pc' = "exited"
    /\ UNCHANGED <<cli_caption_locale, cli_authors, cli_fix_table, cli_debug,
                   locale_value, cli_exception, cli_converted, cli_stderr>>
    /\ UNCHANGED notCli

CliNext ==
    \/ CollectOptions
    \/ Construct
    \/ RunConvert
    \/ ExceptTex2DocxError
    \/ ExceptException
    \/ UncaughtException
    \/ ReturnFromConvert

Fragments ==
    {"\\usepackage{subcaption}", "\\usepackage{subfig}", "\\begin{subfig}",
     "\\subfloat", "\\usepackage{subfigure}", "\\subfigure{",
     "\\begin{subfigure}", "\\usepackage{graphicx}"}

\* the fragments each pattern of TexPatterns finds
SUBCAPTION_PACKAGE == {"\\usepackage{subcaption}"}
SUBFIG_PACKAGE == {"\\usepackage{subfig}"}
SUBFIG_ENV == {"\\begin{subfig}", "\\subfloat"}
SUBFIGURE_PACKAGE == {"\\usepackage{subfigure}"}
SUBFIGURE_COMMAND == {"\\subfigure{"}
SUBFIGURE_ENVIRONMENT == {"\\begin{subfigure}"}

\* regex.search(pattern, content)
search(pattern, text) == pattern \cap text # {}

\* a variant that asks for the bare environment before the subfig usage
find_figure_package_environment_first(text) ==
    IF search(SUBCAPTION_PACKAGE, text) THEN "subcaption"
    ELSE IF search(SUBFIGURE_ENVIRONMENT, text) THEN "subcaption"
    ELSE IF search(SUBFIG_PACKAGE, text) \/ search(SUBFIG_ENV, text)
    THEN "subfig"
    ELSE IF search(SUBFIGURE_PACKAGE, text)
            \/ search(SUBFIGURE_COMMAND, text)
    THEN "subfigure"
    ELSE NoValue

\* PatternMatcher.find_figure_package
find_figure_package(text) ==
    IF search(SUBCAPTION_PACKAGE, text) THEN "subcaption"
    ELSE IF search(SUBFIG_PACKAGE, text) \/ search(SUBFIG_ENV, text)
    THEN "subfig"
    ELSE IF search(SUBFIGURE_PACKAGE, text)
            \/ search(SUBFIGURE_COMMAND, text)
    THEN "subfigure"
    ELSE IF search(SUBFIGURE_ENVIRONMENT, text) THEN "subcaption"
    ELSE NoValue

PackageInit ==
    /\ fp_content \in SUBSET Fragments
    /\ figure_package = NoValue
    /\ fp_pc = "parsed"

PackageIdle ==
    /\ fp_content = {}
    /\ figure_package = NoValue
    /\ fp_pc = "idle"

\* LatexParser.analyze_structure: self.figure_package =
\* PatternMatcher.find_figure_package(self.clean_content)
FindFigurePackage ==
    /\ fp_pc = "parsed"
    /\ figure_package' = find_figure_package(fp_content)
    /\ fp_pc' = "analyzed"
    /\ UNCHANGED fp_content
    /\ UNCHANGED notPackage

PackageNext == FindFigurePackage

MaxItems == 2
MaxBodyItems == 2

\* the texts: plain units, \resizebox{a}{a} without a third argument, and
\* \resizebox{a}{a}{...} with a body of units and of further wrappers
PlainUnit(tok) == [kind |-> "unit", tok |-> tok, inner |-> <<>>]
TwoArguments == [kind |-> "two arguments", tok |-> "", inner |-> <<>>]
Wrapper(inner) == [kind |-> "resizebox", tok |-> "", inner |-> inner]
PlainUnits == {PlainUnit(tok) : tok \in {" ", "T", "x"}}
InnerWrappers == {Wrapper(inner) : inner \in SeqsUpTo(PlainUnits, MaxBodyItems)}
OuterWrappers ==
    {Wrapper(inner) :
        inner \in SeqsUpTo(PlainUnits \cup InnerWrappers, MaxBodyItems)}
Documents ==
    SeqsUpTo(PlainUnits \cup {TwoArguments} \cup OuterWrappers, MaxItems)

\* the characters of a text; gap: the arguments are written apart
RECURSIVE render(_, _)
render(items, gap) ==
    IF items = <<>> THEN <<>>
    ELSE LET item == Head(items)
             sp == IF gap THEN <<" ">> ELSE <<>>
             two == <<"R">> \o sp \o <<"{", "a", "}">> \o sp
                    \o <<"{", "a", "}">>
         IN  (CASE item.kind = "unit" -> <<item.tok>>
                [] item.kind = "two arguments" -> two
                [] OTHER -> two \o sp \o <<"{">>
                            \o render(item.inner, gap) \o <<"}">>)
             \o render(Tail(items), gap)

\* str.lstrip, str.rstrip, str.strip
RECURSIVE lstrip(_)
lstrip(chars) ==
    IF chars # <<>> /\ Head(chars) = " " THEN lstrip(Tail(chars)) ELSE chars
RECURSIVE rstrip(_)
rstrip(chars) ==
    IF chars # <<>> /\ chars[Len(chars)] = " "
    THEN rstrip(SubSeq(chars, 1, Len(chars) - 1)) ELSE chars
strip(chars) == rstrip(lstrip(chars))

\* body.lstrip().startswith("\\begin{tabular")
starts_with_tabular(chars) ==
    lstrip(chars) # <<>> /\ Head(lstrip(chars)) = "T"

\* ContentModifier._skip_whitespace
RECURSIVE skip_whitespace(_, _)
skip_whitespace(chars, index) ==
    IF index <= Len(chars) /\ chars[index] = " "
    THEN skip_whitespace(chars, index + 1) ELSE index

\* the while loop of _extract_braced_segment: the position of the closing
\* brace, 0 when the text ends first
RECURSIVE closing_brace(_, _, _)
closing_brace(chars, end_index, depth) ==
    IF end_index > Len(chars) THEN 0
    ELSE IF chars[end_index] = "{"
    THEN closing_brace(chars, end_index + 1, depth + 1)
    ELSE IF chars[end_index] = "}"
    THEN IF depth - 1 = 0 THEN end_index
         ELSE closing_brace(chars, end_index + 1, depth - 1)
    ELSE closing_brace(chars, end_index + 1, depth)

\* ContentModifier._extract_braced_segment: <<segment, next index>>, or
\* <<>> for the ValueError
extract_braced_segment(chars, start_index) ==
    LET end_index == closing_brace(chars, start_index, 0)
    IN  IF end_index = 0 THEN <<>>
        ELSE <<SubSeq(chars, start_index + 1, end_index - 1), end_index + 1>>

\* pattern.search(content, search_pos) for \\resizebox\s*\{ :
\* <<match.start(), match.end()>>, or <<>> when nothing matches
RECURSIVE resizebox_search(_, _)
resizebox_search(chars, search_pos) ==
    IF search_pos > Len(chars) THEN <<>>
    ELSE LET brace == skip_whitespace(chars, search_pos + 1)
         IN  IF chars[search_pos] = "R" /\ brace <= Len(chars)
                /\ chars[brace] = "{"
             THEN <<search_pos, brace + 1>>
             ELSE resizebox_search(chars, search_pos + 1)

\* the while True loop of _unwrap_resizebox_tabular
RECURSIVE find_replacements(_, _, _)
find_replacements(chars, search_pos, replacements) ==
    LET match == resizebox_search(chars, search_pos)
    IN  IF match = <<>>
        THEN [raised |-> FALSE, replacements |-> replacements]
        ELSE
        LET first == extract_braced_segment(chars, match[2] - 1)
            next1 == skip_whitespace(chars, first[2])
            second == extract_braced_segment(chars, next1)
            next2 == skip_whitespace(chars, second[2])
            third == extract_braced_segment(chars, next2)
        IN  IF first = <<>>
            THEN [raised |-> TRUE, replacements |-> replacements]
            ELSE IF next1 > Len(chars) \/ chars[next1] # "{"
            THEN find_replacements(chars, match[2], replacements)
            ELSE IF second = <<>>
            THEN [raised |-> TRUE, replacements |-> replacements]
            ELSE IF next2 > Len(chars) \/ chars[next2] # "{"
            THEN find_replacements(chars, match[2], replacements)
            ELSE IF third = <<>>
            THEN [raised |-> TRUE, replacements |-> replacements]
            ELSE find_replacements(chars, match[2],
                    IF starts_with_tabular(third[1])
                    THEN Append(replacements,
                                <<match[1], third[2], strip(third[1])>>)
                    ELSE replacements)

\* for start, end, body in replacements: the text before start from
\* last_index on, then the body; at the end the text from last_index on
RECURSIVE join_parts(_, _, _)
join_parts(chars, replacements, last_index) ==
    IF replacements = <<>> THEN SubSeq(chars, last_index, Len(chars))
    ELSE SubSeq(chars, last_index, Head(replacements)[1] - 1)
         \o Head(replacements)[3]
         \o join_parts(chars, Tail(replacements), Head(replacements)[2])

\* ContentModifier._unwrap_resizebox_tabular
unwrap_resizebox_tabular(chars) ==
    LET found == find_replacements(chars, 1, <<>>)
    IN  IF chars = <<>> THEN [raised |-> FALSE, content |-> chars]
        ELSE IF found.raised THEN [raised |-> TRUE, content |-> chars]
        ELSE [raised |-> FALSE,
              content |-> join_parts(chars, found.replacements, 1)]

ResizeboxInit ==
    /\ rb_document \in Documents
    /\ rb_gap \in BOOLEAN
    /\ rb_content = render(rb_document, rb_gap)
    /\ rb_raised = FALSE
    /\ rb_pc = "modified"

ResizeboxIdle ==
    /\ rb_document = <<>>
    /\ rb_gap = FALSE
    /\ rb_content = <<>>
    /\ rb_raised = FALSE
    /\ rb_pc = "idle"

\* ContentModifier.create_modified_content: self._unwrap_resizebox_tabular()
UnwrapResizeboxTabular ==
    /\ rb_pc = "modified"
    /\ rb_content' = unwrap_resizebox_tabular(rb_content).content
    /\ rb_raised' = unwrap_resizebox_tabular(rb_content).raised
    /\ rb_pc' = "unwrapped"
    /\ UNCHANGED <<rb_document, rb_gap>>
    /\ UNCHANGED notResizebox

ResizeboxNext == UnwrapResizeboxTabular

\* what the text is to become: each wrapper whose body begins, after
\* whitespace, with a tabular environment gives way to its stripped body,
\* everything else stays; nested: whether the wrappers inside a body that
\* replaces its wrapper are unwrapped as well
RECURSIVE Unwrapped(_, _, _)
Unwrapped(items, gap, nested) ==
    IF items = <<>> THEN <<>>
    ELSE LET item == Head(items)
         IN  (IF item.kind # "resizebox" THEN render(<<item>>, gap)
              ELSE IF starts_with_tabular(render(item.inner, gap))
              THEN strip(IF nested THEN Unwrapped(item.inner, gap, nested)
                         ELSE render(item.inner, gap))
              ELSE SubSeq(render(<<Wrapper(<<>>)>>, gap), 1,
                          Len(render(<<Wrapper(<<>>)>>, gap)) - 1)
                   \o Unwrapped(item.inner, gap, nested) \o <<"}">>)
             \o Unwrapped(Tail(items), gap, nested)

\* C17: for any text, _unwrap_resizebox_tabular gives the text with every
\* \resizebox whose third argument begins, after whitespace, with a
\* tabular environment replaced by the stripped body of that argument, and
\* with all other text kept unchanged, in order and exactly once, for any
\* arrangement of wrappers (a wrapper inside a replaced body read either
\* as unwrapped too or as part of that body).
C17_ResizeboxUnwrapping ==
    rb_pc = "unwrapped" =>
        /\ ~rb_raised
        /\ rb_content \in {Unwrapped(rb_document, rb_gap, TRUE),
                           Unwrapped(rb_document, rb_gap, FALSE)}

(***************************************************************************)
(* Legacy table labels (modifier.py).  A text is a sequence of \label{key} *)
(* and \ref{key} commands and of plain text; a key is <<prefix, name>>.    *)
(***************************************************************************)
MaxCommands == 3

KeyPrefixes == {"tab:", "tbl:", "fig:"}
KeyNames == {"", "a"}
Keys == KeyPrefixes \X KeyNames
PlainText == [cmd |-> "text", key |-> <<"", "">>]
Commands ==
    {[cmd |-> c, key |-> k] : c \in {"\\label", "\\ref"}, k \in Keys}
    \cup {PlainText}

\* r"\\label\{tab:([^}]+)\}" and r"\\ref\{tab:([^}]+)\}": the command,
\* the prefix tab: and a name of at least one character
tab_pattern(cmd, token) ==
    /\ token.cmd = cmd
    /\ token.key[1] = "tab:"
    /\ token.key[2] # ""

\* regex.sub(pattern, replace_label or replace_ref, self.modified_content)
sub_tab(cmd, text) ==
    [i \in 1..Len(text) |->
        IF tab_pattern(cmd, text[i])
        THEN [cmd |-> cmd, key |-> <<"tbl:", text[i].key[2]>>]
        ELSE text[i]]

\* ContentModifier._normalize_table_labels
normalize_table_labels(text) ==
    IF text = <<>> THEN text
    ELSE sub_tab("\\ref", sub_tab("\\label", text))

LabelsInit ==
    /\ nl_original \in SeqsUpTo(Commands, MaxCommands)
    /\ nl_content = nl_original
    /\ nl_pc = "modified"

LabelsIdle ==
    /\ nl_original = <<>>
    /\ nl_content = <<>>
    /\ nl_pc = "idle"

\* ContentModifier.create_modified_content: self._normalize_table_labels()
NormalizeTableLabels ==
    /\ nl_pc = "modified"
    /\ nl_content' = normalize_table_labels(nl_content)
    /\ nl_pc' = "normalized"
    /\ UNCHANGED nl_original
    /\ UNCHANGED notLabels

LabelsNext == NormalizeTableLabels

IsTabCommand(token) ==
    token.cmd \in {"\\label", "\\ref"} /\ token.key[1] = "tab:"

\* every \label{tab:X} and \ref{tab:X} has become the tbl: command of the
\* same name
TabCommandsRewritten ==
    /\ Len(nl_content) = Len(nl_original)
    /\ \A i \in 1..Len(nl_original) :
          IsTabCommand(nl_original[i]) =>
              nl_content[i] = [cmd |-> nl_original[i].cmd,
                               key |-> <<"tbl:", nl_original[i].key[2]>>]

\* a reference and a label with the same key before have the same key after
MatchesKept ==
    \A i, j \in 1..Len(nl_original) :
        (/\ nl_original[i].cmd = "\\ref"
         /\ nl_original[j].cmd = "\\label"
         /\ nl_original[i].key = nl_original[j].key)
        => nl_content[i].key = nl_content[j].key

\* C18: after _normalize_table_labels every \label{tab:X} has become
\* \label{tbl:X} and every \ref{tab:X} has become \ref{tbl:X}, no
\* tab:-prefixed label or reference remains, and a reference and a label
\* that matched before still match.
C18_LegacyLabelNormalization ==
    nl_pc = "normalized" =>
        /\ TabCommandsRewritten
        /\ \A i \in 1..Len(nl_content) : ~IsTabCommand(nl_content[i])
        /\ MatchesKept

(***************************************************************************)
(* The compile batch with the raster files of the staging directory        *)
(* (subfile.py: _compile_parallel, _compile_single_file,                   *)
(* _handle_png_output).  A file name is a sequence of characters without   *)
(* its .png suffix; a stem is the name of a subfile without .tex.  The     *)
(* batch is run twice on the same inputs, each time in a fresh directory.  *)
(***************************************************************************)
MaxBatch == 2

Stems == {<<"a">>, <<"a", "b">>, <<"c">>}
PageSuffix == <<"-", "1">>

\* what xelatex with the standalone class does for one subfile: writes
\* stem.png, writes a page-numbered stem-1.png, writes no raster, exits
\* nonzero, or runs into the timeout
ToolBehaviours == {"png", "page png", "no png", "failure", "timeout"}

\* tex_path.with_suffix(".png")
expected_png(stem) == stem

\* the raster files the tool writes
tool_output(stem, behaviour) ==
    CASE behaviour = "png" -> {stem}
      [] behaviour = "page png" -> {stem \o PageSuffix}
      [] OTHER -> {}

\* file_path.with_suffix(".out") and file_path.with_suffix(".err")
log_files(stem) == {<<stem, ".out">>, <<stem, ".err">>}

\* the log files _compile_single_file writes: after a run that returned,
\* and (in _log_compilation_failure) after a CalledProcessError; the
\* timeout is caught by `except Exception: return False`
tool_logs(stem, behaviour) ==
    IF behaviour = "timeout" THEN {} ELSE log_files(stem)

\* subprocess.run(command, check=True, timeout=...) returns
tool_returns(behaviour) == behaviour \in {"png", "page png", "no png"}

\* tex_path.parent.glob(f"{tex_path.stem}*.png")
glob_pngs(stem, files) ==
    {name \in files :
        Len(name) >= Len(stem) /\ SubSeq(name, 1, Len(stem)) = stem}

RasterInit ==
    /\ \E n \in 1..MaxBatch :
        /\ rs_paths \in {p \in [1..n -> Stems] :
                            \A i, j \in 1..n : i # j => p[i] # p[j]}
        /\ rs_tool \in [1..n -> ToolBehaviours]
        /\ rs_pc = [u \in 1..n |-> "not submitted"]
        /\ rs_pick = [u \in 1..n |-> <<>>]
        /\ rs_result = [u \in 1..n |-> "pending"]
    /\ rs_dir = {}
    /\ rs_collected = {}
    /\ rs_successful_count = 0
    /\ rs_failed_files = <<>>
    /\ rs_stage = "called"
    /\ rs_run = 1
    /\ rs_first = <<>>
    /\ rs_logs = {}

RasterIdle ==
    /\ rs_paths = <<>>
    /\ rs_tool = <<>>
    /\ rs_pc = <<>>
    /\ rs_pick = <<>>
    /\ rs_result = <<>>
    /\ rs_dir = {}
    /\ rs_collected = {}
    /\ rs_successful_count = 0
    /\ rs_failed_files = <<>>
    /\ rs_stage = "idle"
    /\ rs_run = 1
    /\ rs_first = <<>>
    /\ rs_logs = {}

RasterUnits == 1..Len(rs_paths)

\* the unit's step in its worker process ends with the value of the future
Finished(u, value) ==
    /\ rs_result' = [rs_result EXCEPT ![u] = value]
    /\ rs_pc' = [rs_pc EXCEPT ![u] = "done"]

\* _compile_parallel: the executor is made and every path submitted
SubmitSubfiles ==
    /\ rs_stage = "called"
    /\ rs_stage' = "collecting"
    /\ rs_pc' = [u \in RasterUnits |-> "queued"]
    /\ UNCHANGED <<rs_paths, rs_tool, rs_pick, rs_result, rs_dir,
                   rs_collected, rs_successful_count, rs_failed_files,
                   rs_run, rs_first, rs_logs>>
    /\ UNCHANGED notRaster

\* a free worker process takes the next submitted unit
TakeUnit(u) ==
    /\ rs_stage = "collecting"
    /\ rs_pc[u] = "queued"
    /\ \A v \in RasterUnits : v < u => rs_pc[v] # "queued"
    /\ Cardinality({v \in RasterUnits :
                       rs_pc[v] \notin {"queued", "done"}})
          < pool_size(rs_paths)
    /\ rs_pc' = [rs_pc EXCEPT ![u] = "started"]
    /\ UNCHANGED <<rs_paths, rs_tool, rs_pick, rs_result, rs_dir,
                   rs_collected, rs_successful_count, rs_failed_files,
                   rs_stage, rs_run, rs_first, rs_logs>>
    /\ UNCHANGED notRaster

\* _compile_single_file: subprocess.run; CalledProcessError and the
\* timeout end the unit with False
RunTool(u) ==
    /\ rs_pc[u] = "started"
    /\ rs_dir' = rs_dir \cup tool_output(rs_paths[u], rs_tool[u])
    /\ rs_logs' = rs_logs \cup tool_logs(rs_paths[u], rs_tool[u])
    /\ IF tool_returns(rs_tool[u])
       THEN /\ rs_pc' = [rs_pc EXCEPT ![u] = "ran"]
            /\ UNCHANGED rs_result
       ELSE Finished(u, "False")
    /\ UNCHANGED <<rs_paths, rs_tool, rs_pick, rs_collected,
                   rs_successful_count, rs_failed_files, rs_stage, rs_run,
                   rs_first>>
    /\ UNCHANGED notRaster

\* _handle_png_output: if expected_png.exists(): return True
CheckExpectedPng(u) ==
    /\ rs_pc[u] = "ran"
    /\ IF expected_png(rs_paths[u]) \in rs_dir
       THEN Finished(u, "True")
       ELSE /\ rs_pc' = [rs_pc EXCEPT ![u] = "globbing"]
            /\ UNCHANGED rs_result
    /\ UNCHANGED <<rs_paths, rs_tool, rs_pick, rs_dir, rs_collected,
                   rs_successful_count, rs_failed_files, rs_stage, rs_run,
                   rs_first, rs_logs>>
    /\ UNCHANGED notRaster

\* _handle_png_output: created_pngs = list(glob(pattern)), in the order the
\* directory yields them; no match: return False
GlobPngs(u) ==
    /\ rs_pc[u] = "globbing"
    /\ IF glob_pngs(rs_paths[u], rs_dir) = {}
       THEN /\ Finished(u, "False")
            /\ UNCHANGED rs_pick
       ELSE /\ \E first \in glob_pngs(rs_paths[u], rs_dir) :
                  rs_pick' = [rs_pick EXCEPT ![u] = first]
            /\ rs_pc' = [rs_pc EXCEPT ![u] = "renaming"]
            /\ UNCHANGED rs_result
    /\ UNCHANGED <<rs_paths, rs_tool, rs_dir, rs_collected,
                   rs_successful_count, rs_failed_files, rs_stage, rs_run,
                   rs_first, rs_logs>>
    /\ UNCHANGED notRaster

\* _handle_png_output: expected_png.unlink() when it exists, then
\* created_pngs[0].rename(expected_png); an exception gives False
RenameFirstPng(u) ==
    /\ rs_pc[u] = "renaming"
    /\ IF rs_pick[u] \in rs_dir
       THEN /\ rs_dir' = (rs_dir \ {rs_pick[u]})
                         \cup {expected_png(rs_paths[u])}
            /\ Finished(u, "True")
       ELSE /\ rs_dir' = rs_dir \ {expected_png(rs_paths[u])}
            /\ Finished(u, "False")
    /\ UNCHANGED <<rs_paths, rs_tool, rs_pick, rs_collected,
                   rs_successful_count, rs_failed_files, rs_stage, rs_run,
                   rs_first, rs_logs>>
    /\ UNCHANGED notRaster

\* for future in as_completed(futures): the loop body
CollectFuture(u) ==
    /\ rs_stage = "collecting"
    /\ u \in RasterUnits \ rs_collected
    /\ rs_result[u] # "pending"
    /\ LET r == collect_result(rs_result[u], rs_successful_count,
                               rs_failed_files, rs_paths[u])
       IN  /\ rs_successful_count' = r.successful_count
           /\ rs_failed_files' = r.failed_files
    /\ rs_collected' = rs_collected \cup {u}
    /\ UNCHANGED <<rs_paths, rs_tool, rs_pc, rs_pick, rs_result, rs_dir,
                   rs_stage, rs_run, rs_first, rs_logs>>
    /\ UNCHANGED notRaster

\* return successful_count, failed_files
ReturnOutcome ==
    /\ rs_stage = "collecting"
    /\ rs_collected = RasterUnits
    /\ rs_stage' = "returned"
    /\ UNCHANGED <<rs_paths, rs_tool, rs_pc, rs_pick, rs_result, rs_dir,
                   rs_collected, rs_successful_count, rs_failed_files,
                   rs_run, rs_first, rs_logs>>
    /\ UNCHANGED notRaster

\* the conversion is run again on the same inputs:
\* FileManager.prepare_temp_directory empties the staging directory and
\* _compile_parallel starts over
RunAgain ==
    /\ rs_stage = "returned"
    /\ rs_run = 1
    /\ rs_run' = 2
    /\ rs_first' = <<rs_successful_count, Range(rs_failed_files)>>
    /\ rs_dir' = {}
    /\ rs_logs' = {}
    /\ rs_pc' = [u \in RasterUnits |-> "not submitted"]
    /\ rs_pick' = [u \in RasterUnits |-> <<>>]
    /\ rs_result' = [u \in RasterUnits |-> "pending"]
    /\ rs_collected' = {}
    /\ rs_successful_count' = 0
    /\ rs_failed_files' = <<>>
    /\ rs_stage' = "called"
    /\ UNCHANGED <<rs_paths, rs_tool>>
    /\ UNCHANGED notRaster

RasterNext ==
    \/ SubmitSubfiles
    \/ \E u \in RasterUnits : TakeUnit(u)
    \/ \E u \in RasterUnits : RunTool(u)
    \/ \E u \in RasterUnits : CheckExpectedPng(u)
    \/ \E u \in RasterUnits : GlobPngs(u)
    \/ \E u \in RasterUnits : RenameFirstPng(u)
    \/ \E u \in RasterUnits : CollectFuture(u)
    \/ ReturnOutcome
    \/ RunAgain

\* C19: for the same subfiles and the same tool behaviour of each unit,
\* the success count and the set of failed subfiles the batch returns are
\* the same whatever the completion order and interleaving of the units:
\* the second run returns what the first returned.
C19_DeterministicBatchOutcome ==
    (rs_stage = "returned" /\ rs_run = 2) =>
        /\ rs_successful_count = rs_first[1]
        /\ Range(rs_failed_files) = rs_first[2]

\* C24: for each subfile whose unit has finished, whether the invocation
\* succeeded, exited nonzero or timed out, the sibling .out and .err files
\* exist in the staging directory.
C24_ToolOutputPersisted ==
    \A u \in RasterUnits :
        rs_pc[u] = "done" => log_files(rs_paths[u]) \subseteq rs_logs

\* C30: the output handling of a subfile only ever picks, to rename it, a
\* raster file its own tool run produced, also when its stem is a prefix of
\* another subfile's stem; and when the batch returns, every unit reported
\* successful still has its expected raster file.
C30_UnitsDoNotInterfere ==
    /\ \A u \in RasterUnits :
           rs_pick[u] # <<>> =>
               rs_pick[u] \in tool_output(rs_paths[u], rs_tool[u])
    /\ rs_stage = "returned" =>
           \A u \in RasterUnits :
               rs_result[u] = "True" => expected_png(rs_paths[u]) \in rs_dir

(***************************************************************************)
(* Environment replacement after the compilation of the subfiles           *)
(* (SubfileGenerator._generate_subfiles, SubfileCompiler, and              *)
(* ContentModifier._replace_environments).  The document is a sequence of  *)
(* tokens: body text, floats and, after replacement, image inclusions.     *)
(* A float carries its main label and may hold a \ref to a label; a body   *)
(* text token may hold a \ref too.  A label is a sequence of name pieces.   *)
(***************************************************************************)
MaxReplaceFloats == 2
MaxContentLen == 3

\* The labels of the floats: fig:a, fig:b and fig:multifig_a, the label
\* the replacement of a float labelled fig:a gets.
OldLabels == {<<"fig:", "a">>, <<"fig:", "b">>, <<"fig:", "multifig_", "a">>}
RefChoices == {<<>>} \cup {<<l>> : l \in OldLabels}

TextToken(ref) == [k |-> "text", name |-> <<>>, ref |-> ref]
FloatToken(label, ref) == [k |-> "float", name |-> label, ref |-> ref]
ImageToken(stem) == [k |-> "image", name |-> stem, ref |-> <<>>]

ReplaceTokens ==
    {TextToken(r) : r \in RefChoices}
        \cup {FloatToken(l, r) : l \in OldLabels, r \in RefChoices}

\* LatexParser.figure_contents: the floats of the document, in its order.
figure_environments(text) == SelectSeq(text, LAMBDA t : t.k = "float")

\* config.get_multifig_template(): the built-in template, or the one given
\* to the constructor.
Templates == {"MULTIFIG_FIGENV", "custom"}

\* the outcomes of the compilation of one subfile
CompileOutcomes == {"png", "failure", "timeout"}

\* uuid.uuid4().hex[:4] in the uniqueness loop of _generate_filename: the
\* value drawn for the float of an index
Disambiguators == <<"_0a1f", "_1b2e", "_2c3d", "_3d4c">>

\* _generate_filename: f"{prefix}_{safe_name}", the label without its
\* prefix fig:, sanitized
natural_stem(float) == <<"multifig_">> \o sanitize_filename(Tail(float.name))

\* _generate_subfiles: storage_dict[index] = filename for every index of
\* the list; a name an earlier float has taken gets a disambiguator.
storage_dict(content_list) ==
    [index \in 1..Len(content_list) |->
        LET stem == natural_stem(content_list[index])
            taken == \E j \in 1..(index - 1) :
                         natural_stem(content_list[j]) = stem
        IN  [stem |-> IF taken THEN Append(stem, Disambiguators[index])
                      ELSE stem,
             suffix |-> "tex"]]

\* _compile_single_file's expected_png: the subfile's name with the suffix
\* .png; _create_new_environment's png_filename is the same name.
png_filename(filename) == [stem |-> filename.stem, suffix |-> "png"]

\* _create_new_environment: new_label = f"{label_prefix}:{safe_label}", a
\* label derived from the subfile's stem.
replacement_label(stem) == <<"fig:">> \o sanitize_filename(stem)

\* _create_new_environment: the new environment for a subfile, <<>> for
\* None (a template that is not the built-in one).
create_new_environment(filename, template) ==
    IF template = "MULTIFIG_FIGENV"
    THEN <<ImageToken(png_filename(filename).stem)>>
    ELSE <<>>

\* _update_references, the main reference: every \ref to the float's label
\* in the live document becomes a \ref to the new label.
update_references(original, new_env, text) ==
    LET main_label == original.name
        fresh_label == replacement_label(new_env.name)
    IN  [i \in 1..Len(text) |->
            IF text[i].ref = <<main_label>>
            THEN [text[i] EXCEPT !.ref = <<fresh_label>>]
            ELSE text[i]]

\* _replace_environments, the for loop from index on: st is the live
\* document and the indices a warning was logged for.
RECURSIVE replace_environments(_, _, _, _, _)
replace_environments(original_contents, created_files, template, index, st) ==
    IF index > Len(original_contents) THEN st
    ELSE LET original == original_contents[index]
             new_env == create_new_environment(created_files[index], template)
             after ==
                 IF index \notin DOMAIN created_files THEN st
                 ELSE IF new_env # <<>>
                         /\ original \in Range(st.content)
                 THEN [st EXCEPT !.content =
                          update_references(
                              original, new_env[1],
                              replace_first(st.content, original,
                                            new_env))]
                 ELSE [st EXCEPT !.warnings = @ \cup {index}]
         IN  replace_environments(original_contents, created_files, template,
                                  index + 1, after)

ReplaceInit ==
    /\ re_clean_content \in
           {text \in SeqsUpTo(ReplaceTokens, MaxContentLen) :
               Len(figure_environments(text)) <= MaxReplaceFloats}
    /\ re_template \in Templates
    /\ re_figure_contents = figure_environments(re_clean_content)
    /\ re_created_files = <<>>
    /\ re_outcome = <<>>
    /\ re_temp_dir_files = {}
    /\ re_modified_content = <<>>
    /\ re_warnings = {}
    /\ re_pc = "parsed"

ReplaceIdle ==
    /\ re_clean_content = <<>>
    /\ re_template = "idle"
    /\ re_figure_contents = <<>>
    /\ re_created_files = <<>>
    /\ re_outcome = <<>>
    /\ re_temp_dir_files = {}
    /\ re_modified_content = <<>>
    /\ re_warnings = {}
    /\ re_pc = "idle"

\* subfile_gen.generate_figure_subfiles(parser.figure_contents): every float
\* gets its entry of created_figure_files and its subfile.
GenerateSubfilesForFigures ==
    /\ re_pc = "parsed"
    /\ re_created_files' = storage_dict(re_figure_contents)
    /\ re_temp_dir_files' = Range(storage_dict(re_figure_contents))
    /\ re_pc' = "generated"
    /\ UNCHANGED <<re_clean_content, re_template, re_figure_contents,
                   re_outcome, re_modified_content, re_warnings>>
    /\ UNCHANGED notReplace

\* compiler.compile_all_subfiles(created_figure_files, ...): a subfile whose
\* compilation succeeds leaves its raster file in the staging directory;
\* the failures are counted and logged, and created_figure_files is left as
\* it was.
CompileSubfilesOfFigures ==
    /\ re_pc = "generated"
    /\ \E outcome \in [DOMAIN re_created_files -> CompileOutcomes] :
        /\ re_outcome' = outcome
        /\ re_temp_dir_files' =
               re_temp_dir_files
                   \cup {png_filename(re_created_files[i]) :
                            i \in {j \in DOMAIN re_created_files :
                                      outcome[j] = "png"}}
    /\ re_pc' = "compiled"
    /\ UNCHANGED <<re_clean_content, re_template, re_figure_contents,
                   re_created_files, re_modified_content, re_warnings>>
    /\ UNCHANGED notReplace

\* modifier.create_modified_content: self.modified_content = clean_content,
\* then _replace_environments(figure_contents, figure_files, template,
\* "fig").
ReplaceEnvironments ==
    /\ re_pc = "compiled"
    /\ LET st == replace_environments(
                     re_figure_contents, re_created_files, re_template, 1,
                     [content |-> re_clean_content, warnings |-> {}])
       IN  /\ re_modified_content' = st.content
           /\ re_warnings' = st.warnings
    /\ re_pc' = "modified"
    /\ UNCHANGED <<re_clean_content, re_template, re_figure_contents,
                   re_created_files, re_outcome, re_temp_dir_files>>
    /\ UNCHANGED notReplace

ReplaceNext ==
    GenerateSubfilesForFigures \/ CompileSubfilesOfFigures
        \/ ReplaceEnvironments

\* the image inclusion that stands for the float of an index
InclusionOf(index) == ImageToken(png_filename(re_created_files[index]).stem)

\* C20: once the content is modified, a float whose subfile compilation
\* failed or timed out has been skipped with a warning and no image
\* inclusion stands for it, and an image inclusion stands for a float only
\* when its raster file was generated in the staging directory.
C20_FailedFloatSkipped ==
    re_pc = "modified" =>
        \A index \in DOMAIN re_created_files :
            /\ re_outcome[index] # "png" =>
                   /\ index \in re_warnings
                   /\ InclusionOf(index) \notin Range(re_modified_content)
            /\ InclusionOf(index) \in Range(re_modified_content) =>
                   png_filename(re_created_files[index]) \in re_temp_dir_files

\* the document names every float once and no two floats share a label
DistinctFloats ==
    \A i, j \in DOMAIN re_figure_contents :
        re_figure_contents[i].name = re_figure_contents[j].name => i = j

\* C22: once all floats have been processed in order, every \ref of the
\* body text that targeted the main label of a replaced float targets that
\* float's new label (the floats carrying distinct labels): no later
\* float's processing has changed a reference rewritten for an earlier one.
C22_ReferenceRewritesStable ==
    (re_pc = "modified" /\ DistinctFloats) =>
        \A index \in DOMAIN re_figure_contents :
            index \notin re_warnings =>
                \A p \in DOMAIN re_clean_content :
                    (/\ re_clean_content[p].k = "text"
                     /\ re_clean_content[p].ref
                            = <<re_figure_contents[index].name>>) =>
                        re_modified_content[p].ref =
                            <<replacement_label(
                                  re_created_files[index].stem)>>

\* C29: with the built-in template and a document in which every float
\* text occurs once, create_modified_content replaces every float that has
\* an entry in the artifact mapping by its image inclusion, also when the
\* float holds a \ref to the label of a float processed earlier.
C29_ReplacementComplete ==
    (/\ re_pc = "modified"
     /\ re_template = "MULTIFIG_FIGENV"
     /\ \A i, j \in DOMAIN re_figure_contents :
            re_figure_contents[i] = re_figure_contents[j] => i = j) =>
        \A index \in DOMAIN re_created_files :
            InclusionOf(index) \in Range(re_modified_content)

(***************************************************************************)
(* The names of the generated subfiles (SubfileGenerator._generate_subfiles *)
(* and _generate_filename).  A name is a sequence of characters, so that    *)
(* two names are equal exactly when the strings are.  A float is           *)
(* represented by the list of its labels: none, or its last label.          *)
(***************************************************************************)
MaxNamedFigures == 3
MaxNamedTables == 1

\* FilenamePatterns.INVALID_CHARS and REPLACEMENT_CHAR
INVALID_CHARS == {"\\", "/", "*", "?", ":", "\"", "<", ">", "|"}
REPLACEMENT_CHAR == "_"

\* TextProcessor.sanitize_filename on a string of characters
sanitize_chars(name) ==
    [i \in 1..Len(name) |->
        IF name[i] \in INVALID_CHARS THEN REPLACEMENT_CHAR ELSE name[i]]

\* the prefixes _generate_filename strips from a label
CleanedPrefixes ==
    {<<"f", "i", "g", c>> : c \in {":", "-", "_"}}
        \cup {<<"t", "a", "b", c>> : c \in {":", "-", "_"}}
        \cup {<<"t", "b", "l", c>> : c \in {":", "-", "_"}}

\* str.startswith
startswith(s, pfx) == Len(s) >= Len(pfx) /\ SubSeq(s, 1, Len(pfx)) = pfx

\* the prefix of a class of floats
MultifigPrefix == <<"m", "u", "l", "t", "i", "f", "i", "g">>
TabPrefix == <<"t", "a", "b">>

\* str(counter) for the counters of the model
Digits == <<"0", "1", "2", "3", "4", "5", "6", "7", "8", "9">>
counter_str(counter) == <<Digits[counter + 1]>>

\* The labels of the floats: fig:a, a_a (the name a with a disambiguator),
\* a:a (sanitized to a_a) and multifig0 (the fallback name of the first
\* figure).
NameLabels == {<<"f", "i", "g", ":", "a">>, <<"a", "_", "a">>,
               <<"a", ":", "a">>, MultifigPrefix \o <<"0">>}
NamedFloats == {<<>>} \cup {<<l>> : l \in NameLabels}

\* uuid.uuid4().hex[:4]: the hexadecimal digits a disambiguator is drawn
\* from, one digit standing for the four
HexDigits == {"a", "b"}

\* _generate_filename up to the uniqueness loop: f"{prefix}_{safe_name}"
original_stem(labels, prefix, counter) ==
    LET last == labels[Len(labels)]
        base_name ==
            IF labels # <<>>
            THEN IF \E pfx \in CleanedPrefixes : startswith(last, pfx)
                 THEN SubSeq(last, 5, Len(last))
                 ELSE last
            ELSE prefix \o counter_str(counter)
    IN  prefix \o <<"_">> \o sanitize_chars(base_name)

tex_name(stem) == stem \o <<".tex">>

\* a variant that keeps the first name whether or not it is taken
generate_filename_unchecked(labels, prefix, counter, existing_names, hex) ==
    <<tex_name(original_stem(labels, prefix, counter))>>

\* _generate_filename with the disambiguator the last round of the
\* uniqueness loop drew: <<filename>>, or <<>> when that round does not end
\* the loop (the name it makes is taken too).
unique_filename(labels, prefix, counter, existing_names, hex) ==
    LET stem == original_stem(labels, prefix, counter)
        with_suffix == tex_name(stem \o <<"_", hex>>)
    IN  IF tex_name(stem) \notin existing_names THEN <<tex_name(stem)>>
        ELSE IF with_suffix \notin existing_names THEN <<with_suffix>>
        ELSE <<>>

\* _generate_subfiles, the for loop from index on, with the disambiguator
\* of each float: the storage dictionary, or <<"retry">> when a
\* disambiguator does not end its loop.
RECURSIVE named_subfiles(_, _, _, _, _)
named_subfiles(content_list, prefix, hexes, index, storage) ==
    IF index > Len(content_list) THEN storage
    ELSE LET made == unique_filename(content_list[index], prefix, index - 1,
                                     Range(storage), hexes[index])
         IN  IF made = <<>> THEN <<"retry">>
             ELSE named_subfiles(content_list, prefix, hexes, index + 1,
                                 Append(storage, made[1]))

NamesInit ==
    /\ nm_figure_contents \in SeqsUpTo(NamedFloats, MaxNamedFigures)
    /\ nm_table_contents \in SeqsUpTo(NamedFloats, MaxNamedTables)
    /\ nm_fix_table \in BOOLEAN
    /\ nm_created_figure_files = <<>>
    /\ nm_created_table_files = <<>>
    /\ nm_pc = "prepared"

NamesIdle ==
    /\ nm_figure_contents = <<>>
    /\ nm_table_contents = <<>>
    /\ nm_fix_table = FALSE
    /\ nm_created_figure_files = <<>>
    /\ nm_created_table_files = <<>>
    /\ nm_pc = "idle"

\* subfile_gen.generate_figure_subfiles(parser.figure_contents)
NameFigureSubfiles ==
    /\ nm_pc = "prepared"
    /\ \E hexes \in [1..Len(nm_figure_contents) -> HexDigits] :
        LET files == named_subfiles(nm_figure_contents, MultifigPrefix,
                                    hexes, 1, nm_created_figure_files)
        IN  /\ files # <<"retry">>
            /\ nm_created_figure_files' = files
    /\ nm_pc' = "figures"
    /\ UNCHANGED <<nm_figure_contents, nm_table_contents, nm_fix_table,
                   nm_created_table_files>>
    /\ UNCHANGED notNames

\* if self.config.fix_table:
\*     subfile_gen.generate_table_subfiles(parser.table_contents)
NameTableSubfiles ==
    /\ nm_pc = "figures"
    /\ IF nm_fix_table
       THEN \E hexes \in [1..Len(nm_table_contents) -> HexDigits] :
               LET files == named_subfiles(nm_table_contents, TabPrefix,
                                           hexes, 1, nm_created_table_files)
               IN  /\ files # <<"retry">>
                   /\ nm_created_table_files' = files
       ELSE UNCHANGED nm_created_table_files
    /\ nm_pc' = "generated"
    /\ UNCHANGED <<nm_figure_contents, nm_table_contents, nm_fix_table,
                   nm_created_figure_files>>
    /\ UNCHANGED notNames

\* compiler.compile_all_subfiles(created_figure_files, created_table_files):
\* the dictionaries are read (list(figure_files.values())), never written.
CompileNamedSubfiles ==
    /\ nm_pc = "generated"
    /\ nm_pc' = "compiled"
    /\ UNCHANGED <<nm_figure_contents, nm_table_contents, nm_fix_table,
                   nm_created_figure_files, nm_created_table_files>>
    /\ UNCHANGED notNames

\* modifier.create_modified_content(..., created_figure_files,
\* created_table_files): _replace_environments reads created_files[index].
ModifyWithNamedSubfiles ==
    /\ nm_pc = "compiled"
    /\ nm_pc' = "modified"
    /\ UNCHANGED <<nm_figure_contents, nm_table_contents, nm_fix_table,
                   nm_created_figure_files, nm_created_table_files>>
    /\ UNCHANGED notNames

NamesNext ==
    NameFigureSubfiles \/ NameTableSubfiles \/ CompileNamedSubfiles
        \/ ModifyWithNamedSubfiles

\* no two indices of a storage dictionary hold the same name
Injective(storage) ==
    \A i, j \in DOMAIN storage : storage[i] = storage[j] => i = j

\* C21: the artifact mapping is one-to-one.  At every moment no two float
\* indices of a class hold the same generated filename and no figure holds
\* the filename of a table; once generation is over every float has its
\* entry, and no later step (compilation, content modification) changes
\* the mapping.
C21_ArtifactMappingOneToOne ==
    /\ [](/\ Injective(nm_created_figure_files)
          /\ Injective(nm_created_table_files)
          /\ Range(nm_created_figure_files)
                 \cap Range(nm_created_table_files) = {}
          /\ nm_pc \in {"generated", "compiled", "modified"} =>
                 /\ DOMAIN nm_created_figure_files
                        = DOMAIN nm_figure_contents
                 /\ nm_fix_table =>
                        DOMAIN nm_created_table_files
                            = DOMAIN nm_table_contents)
    /\ [][(nm_pc \in {"generated", "compiled"}) =>
              UNCHANGED <<nm_created_figure_files,
                          nm_created_table_files>>]_vars

\* three figures labelled fig:a, a_a and fig:a again, whose names collide
\* twice, and a table, after content modification
C21_Witness ==
    /\ nm_pc = "modified"
    /\ nm_fix_table
    /\ Len(nm_table_contents) = 1
    /\ nm_figure_contents = <<<<<<"f", "i", "g", ":", "a">>>>,
                              <<<<"a", "_", "a">>>>,
                              <<<<"f", "i", "g", ":", "a">>>>>>

(***************************************************************************)
(* The graphics path rewrite (ContentModifier._update_graphicspath).       *)
(* The document is a sequence of tokens: command names, braces, brackets,  *)
(* newlines and words.  The two patterns of the method are evaluated over  *)
(* the tokens the way the regular expressions go over the characters.      *)
(***************************************************************************)
MaxPieces == 3

GraphicspathCmd == "\\graphicspath"

PreambleCmds == {"\\documentclass", "\\usepackage"}

WhitespaceTokens == {"\n"}

BraceTokens == {"{", "}"}

temp_dir_name == "tmp/"

\* f"\\graphicspath{{{{{temp_dir_name}/}}}}"
new_graphicspath == <<GraphicspathCmd, "{", "{", temp_dir_name, "}", "}">>

\* The pieces a document is put together from.
GraphicsPieces ==
    { <<"x">>,
      <<"\n">>,
      <<"\\documentclass", "{", "c", "}", "\n">>,
      <<"\\usepackage", "{", "p", "}", "\n">>,
      <<"\\usepackage", "[", "o", "{", "v", "}", "]", "{", "p", "}", "\n">>,
      <<GraphicspathCmd, "{", "{", "d/", "}", "}", "\n">>,
      <<GraphicspathCmd, "{", "{", "d/", "}", "{", "e/", "}", "}", "\n">> }

RECURSIVE GraphicsDocuments(_)
GraphicsDocuments(n) ==
    IF n = 0 THEN {<<>>}
    ELSE LET shorter == GraphicsDocuments(n - 1)
         IN shorter \cup {d \o p : d \in shorter, p \in GraphicsPieces}

\* \s* from position i: the first position that holds no whitespace.
RECURSIVE skip_space(_, _)
skip_space(c, i) ==
    IF i <= Len(c) /\ c[i] \in WhitespaceTokens THEN skip_space(c, i + 1)
    ELSE i

\* [^{}]+ from position i: the first position that holds a brace (0 when
\* not one token was consumed).
RECURSIVE skip_unbraced(_, _, _)
skip_unbraced(c, i, consumed) ==
    IF i <= Len(c) /\ c[i] \notin BraceTokens
    THEN skip_unbraced(c, i + 1, TRUE)
    ELSE IF consumed THEN i ELSE 0

\* One group \s*\{[^{}]+\}\s* from position i: the position after it, or 0.
path_group_end(c, i) ==
    LET open == skip_space(c, i)
    IN IF open <= Len(c) /\ c[open] = "{"
       THEN LET close == skip_unbraced(c, open + 1, FALSE)
            IN IF close # 0 /\ close <= Len(c) /\ c[close] = "}"
               THEN skip_space(c, close + 1)
               ELSE 0
       ELSE 0

\* (?:group)+ from position i: the position after the last group, or 0.
RECURSIVE path_groups_end(_, _, _)
path_groups_end(c, i, matched) ==
    LET next == path_group_end(c, i)
    IN IF next # 0 THEN path_groups_end(c, next, TRUE)
       ELSE IF matched THEN i ELSE 0

\* TexPatterns.GRAPHICSPATH at position i: the position after the match,
\* or 0 when the pattern does not match there.
graphicspath_match_end(c, i) ==
    IF i + 1 <= Len(c) /\ c[i] = GraphicspathCmd /\ c[i + 1] = "{"
    THEN LET groups == path_groups_end(c, i + 2, FALSE)
         IN IF groups # 0 /\ groups <= Len(c) /\ c[groups] = "}"
            THEN groups + 1
            ELSE 0
    ELSE 0

\* regex.sub(TexPatterns.GRAPHICSPATH, "", content)
RECURSIVE remove_graphicspath(_, _)
remove_graphicspath(c, i) ==
    IF i > Len(c) THEN <<>>
    ELSE LET finish == graphicspath_match_end(c, i)
         IN IF finish # 0 THEN remove_graphicspath(c, finish)
            ELSE <<c[i]>> \o remove_graphicspath(c, i + 1)

\* .*?\} from position i: the position of the first closing brace, or 0.
RECURSIVE first_close(_, _)
first_close(c, i) ==
    IF i > Len(c) THEN 0
    ELSE IF c[i] = "}" THEN i
    ELSE first_close(c, i + 1)

\* The insert pattern at position i: the position after the match, or 0.
insert_match_end(c, i) ==
    IF c[i] \in PreambleCmds
    THEN LET close == first_close(c, i + 1)
         IN IF close # 0 THEN skip_space(c, close + 1) ELSE 0
    ELSE 0

\* The loop over regex.finditer: the end of the last match, as the number
\* of tokens before it (0 when the pattern matches nowhere).
RECURSIVE last_match_end(_, _, _)
last_match_end(c, i, last) ==
    IF i > Len(c) THEN last
    ELSE LET finish == insert_match_end(c, i)
         IN IF finish # 0 THEN last_match_end(c, finish, finish - 1)
            ELSE last_match_end(c, i + 1, last)

update_graphicspath(document) ==
    LET c == remove_graphicspath(document, 1)
        end == last_match_end(c, 1, 0)
    IN IF end > 0
       THEN SubSeq(c, 1, end) \o new_graphicspath \o <<"\n">>
            \o SubSeq(c, end + 1, Len(c))
       ELSE new_graphicspath \o <<"\n">> \o c

GraphicspathInit ==
    /\ ug_modified_content \in GraphicsDocuments(MaxPieces)
    /\ ug_pc = "replaced"

GraphicspathIdle ==
    /\ ug_modified_content = <<>>
    /\ ug_pc = "idle"

\* create_modified_content, the step after the table normalisation.
UpdateGraphicspath ==
    /\ ug_pc = "replaced"
    /\ ug_modified_content' = update_graphicspath(ug_modified_content)
    /\ ug_pc' = "updated"
    /\ UNCHANGED notGraphicspath

GraphicspathNext == UpdateGraphicspath

\* The position after the group that opens at position i, the groups being
\* counted by their nesting.
RECURSIVE group_end(_, _, _, _, _)
group_end(c, i, open, close, depth) ==
    IF i > Len(c) THEN i
    ELSE IF c[i] = open THEN group_end(c, i + 1, open, close, depth + 1)
    ELSE IF c[i] = close
         THEN IF depth = 1 THEN i + 1
              ELSE group_end(c, i + 1, open, close, depth - 1)
    ELSE group_end(c, i + 1, open, close, depth)

\* The position after the command at position i with its optional and
\* its mandatory argument.
command_end(c, i) ==
    LET after_options ==
            IF i + 1 <= Len(c) /\ c[i + 1] = "["
            THEN group_end(c, i + 1, "[", "]", 0)
            ELSE i + 1
    IN IF after_options <= Len(c) /\ c[after_options] = "{"
       THEN group_end(c, after_options, "{", "}", 0)
       ELSE after_options

DeclarationsIn(c) == {i \in 1..Len(c) : c[i] = GraphicspathCmd}

\* The declaration at position p names the staging directory.
NamesStaging(c, p) ==
    /\ p + Len(new_graphicspath) - 1 <= Len(c)
    /\ SubSeq(c, p, p + Len(new_graphicspath) - 1) = new_graphicspath

\* The declaration at position p comes after the last preamble command and
\* its arguments, with nothing but whitespace in between, or at the top.
PlacedAfterPreamble(c, p) ==
    LET cmds == {i \in 1..Len(c) : c[i] \in PreambleCmds /\ i < p}
        later == {i \in 1..Len(c) : c[i] \in PreambleCmds /\ i > p}
    IN /\ later = {}
       /\ IF cmds = {} THEN p = 1
          ELSE LET last == CHOOSE i \in cmds : \A j \in cmds : j <= i
                   finish == command_end(c, last)
               IN /\ finish <= p
                  /\ \A k \in finish..(p - 1) : c[k] \in WhitespaceTokens

\* C28: after the rewrite the document holds exactly one \graphicspath
\* declaration, that declaration names the staging directory, and it
\* stands right after the last \documentclass/\usepackage command with its
\* arguments, or at the very top when the document has no such command.
C28_SingleGraphicspathAfterPreamble ==
    ug_pc = "updated" =>
        /\ Cardinality(DeclarationsIn(ug_modified_content)) = 1
        /\ \A p \in DeclarationsIn(ug_modified_content) :
              /\ NamesStaging(ug_modified_content, p)
              /\ PlacedAfterPreamble(ug_modified_content, p)

(***************************************************************************)
(* Specifications: one per group, the other groups idle.                   *)
(***************************************************************************)
InitComments == CommentInit /\ IncludeIdle /\ LabelIdle /\ ConvertIdle
    /\ GraphicsIdle /\ TableIdle /\ CompileIdle /\ BibIdle /\ MetadataIdle /\ CliIdle /\ PackageIdle
    /\ ResizeboxIdle /\ LabelsIdle /\ RasterIdle
    /\ ReplaceIdle
    /\ NamesIdle
    /\ GraphicspathIdle
SpecComments == InitComments /\ [][CommentNext]_vars

InitLabels == LabelInit /\ CommentIdle /\ IncludeIdle /\ ConvertIdle
    /\ GraphicsIdle /\ TableIdle /\ CompileIdle /\ BibIdle /\ MetadataIdle /\ CliIdle /\ PackageIdle
    /\ ResizeboxIdle /\ LabelsIdle /\ RasterIdle
    /\ ReplaceIdle
    /\ NamesIdle
    /\ GraphicspathIdle
SpecLabels == InitLabels /\ [][LabelNext]_vars

InitIncludes == IncludeInit /\ CommentIdle /\ LabelIdle /\ ConvertIdle
    /\ GraphicsIdle /\ TableIdle /\ CompileIdle /\ BibIdle /\ MetadataIdle /\ CliIdle /\ PackageIdle
    /\ ResizeboxIdle /\ LabelsIdle /\ RasterIdle
    /\ ReplaceIdle
    /\ NamesIdle
    /\ GraphicspathIdle
SpecIncludes == InitIncludes /\ [][IncludeNext]_vars

InitIncludeCycles == IncludeCycleInit /\ CommentIdle /\ LabelIdle /\ ConvertIdle
    /\ GraphicsIdle /\ TableIdle /\ CompileIdle /\ BibIdle /\ MetadataIdle /\ CliIdle /\ PackageIdle
    /\ ResizeboxIdle /\ LabelsIdle /\ RasterIdle
    /\ ReplaceIdle
    /\ NamesIdle
    /\ GraphicspathIdle
\* the loop of _process_includes keeps running while it can
SpecIncludeCycles ==
    InitIncludeCycles /\ [][IncludeCycleNext]_vars
        /\ WF_vars(IncludeCycleNext)

InitConvert == ConvertInit /\ CommentIdle /\ IncludeIdle /\ LabelIdle
    /\ GraphicsIdle /\ TableIdle /\ CompileIdle /\ BibIdle /\ MetadataIdle /\ CliIdle /\ PackageIdle
    /\ ResizeboxIdle /\ LabelsIdle /\ RasterIdle
    /\ ReplaceIdle
    /\ NamesIdle
    /\ GraphicspathIdle
SpecConvert == InitConvert /\ [][ConvertNext]_vars

InitGraphics == GraphicsInit /\ CommentIdle /\ IncludeIdle /\ LabelIdle
    /\ ConvertIdle /\ TableIdle /\ CompileIdle /\ BibIdle /\ MetadataIdle /\ CliIdle /\ PackageIdle
    /\ ResizeboxIdle /\ LabelsIdle /\ RasterIdle
    /\ ReplaceIdle
    /\ NamesIdle
    /\ GraphicspathIdle
SpecGraphics == InitGraphics /\ [][GraphicsNext]_vars

InitTables == TableInit /\ CommentIdle /\ IncludeIdle /\ LabelIdle
    /\ ConvertIdle /\ GraphicsIdle /\ CompileIdle /\ BibIdle /\ MetadataIdle /\ CliIdle /\ PackageIdle
    /\ ResizeboxIdle /\ LabelsIdle /\ RasterIdle
    /\ ReplaceIdle
    /\ NamesIdle
    /\ GraphicspathIdle
SpecTables == InitTables /\ [][TableNext]_vars

InitCompile == CompileInit /\ CommentIdle /\ IncludeIdle /\ LabelIdle
    /\ ConvertIdle /\ GraphicsIdle /\ TableIdle /\ BibIdle /\ MetadataIdle /\ CliIdle /\ PackageIdle
    /\ ResizeboxIdle /\ LabelsIdle /\ RasterIdle
    /\ ReplaceIdle
    /\ NamesIdle
    /\ GraphicspathIdle
SpecCompile == InitCompile /\ [][CompileNext]_vars

InitBib == BibInit /\ CommentIdle /\ IncludeIdle /\ LabelIdle
    /\ ConvertIdle /\ GraphicsIdle /\ TableIdle /\ CompileIdle /\ MetadataIdle /\ CliIdle /\ PackageIdle
    /\ ResizeboxIdle /\ LabelsIdle /\ RasterIdle
    /\ ReplaceIdle
    /\ NamesIdle
    /\ GraphicspathIdle
SpecBib == InitBib /\ [][BibNext]_vars

InitMetadata == MetadataInit /\ CommentIdle /\ IncludeIdle /\ LabelIdle
    /\ ConvertIdle /\ GraphicsIdle /\ TableIdle /\ CompileIdle /\ BibIdle /\ CliIdle /\ PackageIdle
    /\ ResizeboxIdle /\ LabelsIdle /\ RasterIdle
    /\ ReplaceIdle
    /\ NamesIdle
    /\ GraphicspathIdle
SpecMetadata == InitMetadata /\ [][MetadataNext]_vars

InitCli == CliInit /\ CommentIdle /\ IncludeIdle /\ LabelIdle /\ ConvertIdle
    /\ GraphicsIdle /\ TableIdle /\ CompileIdle /\ BibIdle /\ MetadataIdle /\ PackageIdle
    /\ ResizeboxIdle /\ LabelsIdle /\ RasterIdle
    /\ ReplaceIdle
    /\ NamesIdle
    /\ GraphicspathIdle
SpecCli == InitCli /\ [][CliNext]_vars

InitPackage == PackageInit /\ CommentIdle /\ IncludeIdle /\ LabelIdle
    /\ ConvertIdle /\ GraphicsIdle /\ TableIdle /\ CompileIdle /\ BibIdle
    /\ MetadataIdle /\ CliIdle
    /\ ResizeboxIdle /\ LabelsIdle /\ RasterIdle
    /\ ReplaceIdle
    /\ NamesIdle
    /\ GraphicspathIdle
SpecPackage == InitPackage /\ [][PackageNext]_vars

InitResizebox == ResizeboxInit /\ CommentIdle /\ IncludeIdle /\ LabelIdle
    /\ ConvertIdle /\ GraphicsIdle /\ TableIdle /\ CompileIdle /\ BibIdle
    /\ MetadataIdle /\ CliIdle /\ PackageIdle /\ LabelsIdle /\ RasterIdle
    /\ ReplaceIdle
    /\ NamesIdle
    /\ GraphicspathIdle
SpecResizebox == InitResizebox /\ [][ResizeboxNext]_vars

InitLegacyLabels == LabelsInit /\ CommentIdle /\ IncludeIdle /\ LabelIdle
    /\ ConvertIdle /\ GraphicsIdle /\ TableIdle /\ CompileIdle /\ BibIdle
    /\ MetadataIdle /\ CliIdle /\ PackageIdle /\ ResizeboxIdle /\ RasterIdle
    /\ ReplaceIdle
    /\ NamesIdle
    /\ GraphicspathIdle
SpecLegacyLabels == InitLegacyLabels /\ [][LabelsNext]_vars

InitRaster == RasterInit /\ CommentIdle /\ IncludeIdle /\ LabelIdle
    /\ ConvertIdle /\ GraphicsIdle /\ TableIdle /\ CompileIdle /\ BibIdle
    /\ MetadataIdle /\ CliIdle /\ PackageIdle /\ ResizeboxIdle
    /\ LabelsIdle
    /\ ReplaceIdle
    /\ NamesIdle
    /\ GraphicspathIdle
SpecRaster == InitRaster /\ [][RasterNext]_vars

InitReplace == ReplaceInit
    /\ CommentIdle /\ IncludeIdle /\ LabelIdle
    /\ ConvertIdle /\ GraphicsIdle /\ TableIdle
    /\ CompileIdle /\ BibIdle /\ MetadataIdle
    /\ CliIdle /\ PackageIdle /\ ResizeboxIdle
    /\ LabelsIdle /\ RasterIdle
    /\ NamesIdle
    /\ GraphicspathIdle
SpecReplace == InitReplace /\ [][ReplaceNext]_vars

InitNames == NamesInit
    /\ CommentIdle /\ IncludeIdle /\ LabelIdle
    /\ ConvertIdle /\ GraphicsIdle /\ TableIdle
    /\ CompileIdle /\ BibIdle /\ MetadataIdle
    /\ CliIdle /\ PackageIdle /\ ResizeboxIdle
    /\ LabelsIdle /\ RasterIdle /\ ReplaceIdle
    /\ GraphicspathIdle
SpecNames == InitNames /\ [][NamesNext]_vars

InitGraphicspath == GraphicspathInit
    /\ CommentIdle /\ IncludeIdle /\ LabelIdle
    /\ ConvertIdle /\ GraphicsIdle /\ TableIdle
    /\ CompileIdle /\ BibIdle /\ MetadataIdle
    /\ CliIdle /\ PackageIdle /\ ResizeboxIdle
    /\ LabelsIdle /\ RasterIdle /\ ReplaceIdle
    /\ NamesIdle
SpecGraphicspath == InitGraphicspath /\ [][GraphicspathNext]_vars

=============================================================================
